---- MODULE Spec2Model ----
(***************************************************************************)
(* DOCX diagnostic engine (scripts/docx_diagnostic.py): one DocxDiagnostic *)
(* object, one call of run_all_checks on it, and get_summary over the      *)
(* issues it collected (Spec); single checks called on their own           *)
(* (ScanSpec, ElementSpec, RelsSpec, TargetSpec, EmbeddedSpec); the        *)
(* analysis of one file in several interpreter processes (RepeatSpec); and *)
(* the batch driver main (MainSpec).  API diagnostic                       *)
(* (scripts/api_diagnostic.py): its main, up to the call of                *)
(* test_api_connection (ApiSpec).                                          *)
(*                                                                         *)
(* The file under analysis is the environment: each step draws what it     *)
(* reads from the file (stat result, zip directory, bytes of a part) with  *)
(* \E when it reads it.  An exception raised inside a step is an input of  *)
(* that step too; where it ends up is decided by the try/except blocks of  *)
(* the code.                                                               *)
(***************************************************************************)
EXTENDS Integers, Sequences, FiniteSets, TLC

VARIABLES
    pc,         \* position of run_all_checks
    issues,     \* self.issues
    stats,      \* self.stats
    zip_file,   \* self.zip_file: "None", "open" or "closed"
    namelist,   \* self.zip_file.namelist(), as a set of part names
    passed,     \* value returned by run_all_checks: "unset", "True", "False"
    stdout,     \* what run_all_checks has printed
    anomalies,  \* how far the inputs read so far are from a plain package
    arg,        \* what the operation under analysis was called with
    file_index, \* main: position of the loop over args.files
    results,    \* main: results
    has_errors, \* main: has_errors
    exit_code,  \* main: the argument of sys.exit, -1 before it is called
    request     \* api_diagnostic: result['request'] of test_api_connection,
                \* <<>> before the call

\* the variables of the command-line drivers
driver == <<arg, file_index, results, has_errors, exit_code, request>>

vars == <<pc, issues, stats, zip_file, namelist, passed, stdout, anomalies, driver>>

----------------------------------------------------------------------------
(* Bounds of the model *)

\* One run reads at most this many anomalies: each of a path that is not a
\* file with content, an oversized file, a file that is not a sound zip
\* archive, a standard part missing, an embedding or media part present, an undecodable
\* byte sequence, an invalid character, a malformed part, an element of the
\* document body, a Relationship entry, an exception raised inside a step
\* that goes on afterwards.
MaxAnomalies == 3
\* largest byte offset of an undecodable sequence
MaxOffset == 1
\* One batch (one call of main) reads at most this many anomalies over all
\* the files it analyses
MaxBatchAnomalies == 1
\* main is given at most this many file arguments
MaxFiles == 2

----------------------------------------------------------------------------
(* Severity *)

ERROR == "ERROR"
WARNING == "WARNING"
INFO == "INFO"

(* DocxDiagnostic.REQUIRED_FILES, in list order *)
REQUIRED_FILES == <<"[Content_Types].xml", "_rels/.rels", "word/document.xml">>

(* optional_files of _check_required_files, in dict order *)
optional_files == <<"word/styles.xml", "word/numbering.xml", "word/settings.xml">>

optional_messages ==
    <<"Style definitions missing - default styles will be used",
      "Numbering definitions missing - lists may not render correctly",
      "Settings missing - document settings may be lost">>

rels_path == "word/_rels/document.xml.rels"

(* Part names a package of the model may hold: the parts every document    *)
(* saved by Word has, and the parts only some have                         *)
StandardParts ==
    {REQUIRED_FILES[i] : i \in 1..3} \cup {optional_files[i] : i \in 1..3}
    \cup {rels_path}

ExtraParts ==
    {"word/embeddings/oleObject1.bin", "word/embeddings/Workbook1.xlsx",
     "word/media/image1.png"}

Parts == StandardParts \cup ExtraParts

\* the names the archives of _check_relationships on its own may hold
TargetParts == {"word/media/a.png", "media/a.png", "word/httpd.xml"}

\* the names the archives of _check_embedded_objects on its own may hold:
\* parts and folders of word/embeddings/ and word/media/, and names that
\* have the words elsewhere
EmbeddedNames ==
    ExtraParts \cup {"word/embeddings/", "word/embeddings.bin", "word/media/",
                     "media/image1.bin", "word/document.xml"}

(* A text is a sequence of characters; NameChars gives the characters of   *)
(* a name.                                                                 *)
NameChars ==
    ("[Content_Types].xml" :>
        <<"[", "C", "o", "n", "t", "e", "n", "t", "_", "T", "y", "p",
        "e", "s", "]", ".", "x", "m", "l">>) @@
    ("_rels/.rels" :>
        <<"_", "r", "e", "l", "s", "/", ".", "r", "e", "l", "s">>) @@
    ("word/document.xml" :>
        <<"w", "o", "r", "d", "/", "d", "o", "c", "u", "m", "e", "n",
        "t", ".", "x", "m", "l">>) @@
    ("word/styles.xml" :>
        <<"w", "o", "r", "d", "/", "s", "t", "y", "l", "e", "s", ".",
        "x", "m", "l">>) @@
    ("word/numbering.xml" :>
        <<"w", "o", "r", "d", "/", "n", "u", "m", "b", "e", "r", "i",
        "n", "g", ".", "x", "m", "l">>) @@
    ("word/settings.xml" :>
        <<"w", "o", "r", "d", "/", "s", "e", "t", "t", "i", "n", "g",
        "s", ".", "x", "m", "l">>) @@
    ("word/_rels/document.xml.rels" :>
        <<"w", "o", "r", "d", "/", "_", "r", "e", "l", "s", "/", "d",
        "o", "c", "u", "m", "e", "n", "t", ".", "x", "m", "l", ".",
        "r", "e", "l", "s">>) @@
    ("word/embeddings/oleObject1.bin" :>
        <<"w", "o", "r", "d", "/", "e", "m", "b", "e", "d", "d", "i",
        "n", "g", "s", "/", "o", "l", "e", "O", "b", "j", "e", "c",
        "t", "1", ".", "b", "i", "n">>) @@
    ("word/embeddings/Workbook1.xlsx" :>
        <<"w", "o", "r", "d", "/", "e", "m", "b", "e", "d", "d", "i",
        "n", "g", "s", "/", "W", "o", "r", "k", "b", "o", "o", "k",
        "1", ".", "x", "l", "s", "x">>) @@
    ("word/media/image1.png" :>
        <<"w", "o", "r", "d", "/", "m", "e", "d", "i", "a", "/", "i",
        "m", "a", "g", "e", "1", ".", "p", "n", "g">>) @@
    ("word/media/a.png" :>
        <<"w", "o", "r", "d", "/", "m", "e", "d", "i", "a", "/", "a",
        ".", "p", "n", "g">>) @@
    ("media/a.png" :>
        <<"m", "e", "d", "i", "a", "/", "a", ".", "p", "n", "g">>) @@
    ("word/httpd.xml" :>
        <<"w", "o", "r", "d", "/", "h", "t", "t", "p", "d", ".", "x",
        "m", "l">>) @@
    ("word/embeddings/" :>
        <<"w", "o", "r", "d", "/", "e", "m", "b", "e", "d", "d", "i",
        "n", "g", "s", "/">>) @@
    ("word/embeddings.bin" :>
        <<"w", "o", "r", "d", "/", "e", "m", "b", "e", "d", "d", "i",
        "n", "g", "s", ".", "b", "i", "n">>) @@
    ("word/media/" :>
        <<"w", "o", "r", "d", "/", "m", "e", "d", "i", "a", "/">>) @@
    ("media/image1.bin" :>
        <<"m", "e", "d", "i", "a", "/", "i", "m", "a", "g", "e", "1",
        ".", "b", "i", "n">>)

\* text.startswith(prefix)
startswith(text, prefix) ==
    /\ Len(prefix) <= Len(text)
    /\ SubSeq(text, 1, Len(prefix)) = prefix

\* text.endswith(suffix)
endswith(text, suffix) ==
    /\ Len(suffix) <= Len(text)
    /\ SubSeq(text, Len(text) - Len(suffix) + 1, Len(text)) = suffix

(* size > 100 * 1024 * 1024 *)
SizeLimit == 100 * 1024 * 1024

(* File sizes os.path.getsize may report *)
Sizes == {0, SizeLimit, SizeLimit + 1}

(* total_revisions < 100 *)
RevisionErrorThreshold == 100

----------------------------------------------------------------------------
(* Issue and add_issue.  message is the fixed text of the message; names   *)
(* and nums are the strings and the numbers formatted into the message and *)
(* the location, in order; context is the context argument, a text of code *)
(* points, <<>> when it is None.  The suggestion is a fixed text per       *)
(* message and left out.                                                   *)

Issue(severity, category, message, names, nums) ==
    [severity |-> severity, category |-> category, message |-> message,
     names |-> names, nums |-> nums, context |-> <<>>]

\* an add_issue that puts the new issue in front
add_issue_in_front(self, severity, category, message, names, nums) ==
    [self EXCEPT !.issues = <<Issue(severity, category, message, names, nums)>> \o @]

\* self is the pair of fields a check writes: [issues, stats]
add_issue(self, severity, category, message, names, nums) ==
    [self EXCEPT !.issues = Append(@, Issue(severity, category, message, names, nums))]

\* add_issue called with context=context
add_issue_with_context(self, severity, category, message, names, nums, context) ==
    [self EXCEPT !.issues =
        Append(@, [Issue(severity, category, message, names, nums)
                      EXCEPT !.context = context])]

set_stat(self, key, value) ==
    [self EXCEPT !.stats = (key :> value) @@ @]

Self == [issues |-> issues, stats |-> stats]

----------------------------------------------------------------------------
(* get_summary *)

count_severity(sev) ==
    Cardinality({i \in DOMAIN issues : issues[i].severity = sev})

summary_status_warn_first(error_count, warning_count) ==
    IF warning_count > 0 THEN "WARN"
    ELSE IF error_count > 0 THEN "FAIL" ELSE "PASS"

summary_status(error_count, warning_count) ==
    IF error_count > 0 THEN "FAIL"
    ELSE IF warning_count > 0 THEN "WARN" ELSE "PASS"

\* len([i for i in self.issues if i.severity == sev])
count_in(self, sev) ==
    Cardinality({i \in DOMAIN self.issues : self.issues[i].severity = sev})

\* get_summary of the object whose fields are self
summary_of(self) ==
    LET error_count == count_in(self, ERROR)
        warning_count == count_in(self, WARNING)
        info_count == count_in(self, INFO)
    IN  [status |-> summary_status(error_count, warning_count),
         errors |-> error_count,
         warnings |-> warning_count,
         info |-> info_count,
         statistics |-> self.stats,
         issues |-> self.issues]

get_summary == summary_of(Self)

----------------------------------------------------------------------------
(* Construction: DocxDiagnostic.__init__ *)

Init ==
    /\ pc = "start"
    /\ issues = <<>>
    /\ stats = <<>>
    /\ zip_file = "None"
    /\ namelist = {}
    /\ passed = "unset"
    /\ stdout = <<>>
    /\ anomalies = 0
    /\ arg = [op |-> "run_all_checks", verbose |-> FALSE]
    /\ file_index = 0
    /\ results = <<>>
    /\ has_errors = FALSE
    /\ exit_code = -1
    /\ request = <<>>

\* the anomalies the inputs of this behaviour may hold
Budget == IF arg.op = "main" THEN MaxBatchAnomalies ELSE MaxAnomalies

\* n more anomalies fit into this run
Affordable(n) == anomalies + n <= Budget

\* The sequences over lo..hi of length at most n in nondecreasing order
RECURSIVE SortedSeqs(_, _, _)
SortedSeqs(n, lo, hi) ==
    IF n = 0 THEN {<<>>}
    ELSE {<<>>} \cup {<<k>> \o s : k \in {lo}, s \in SortedSeqs(n - 1, lo, hi)}
                \cup (IF lo < hi THEN SortedSeqs(n, lo + 1, hi) \ {<<>>} ELSE {})

----------------------------------------------------------------------------
(* run_all_checks, first statement and Check 1: _check_file_exists.        *)
(* print raises UnicodeEncodeError when the path cannot be encoded for     *)
(* stdout; os.path.getsize raises OSError when the file disappears after   *)
(* the os.path.isfile test.  Neither is caught.                            *)

\* round(size / (1024 * 1024), 2), in hundredths of a MiB
file_size_mb_x100(size) ==
    LET MiB == 1024 * 1024
    IN  (size \div MiB) * 100 + ((size % MiB) * 100 + MiB \div 2) \div MiB

\* a size test that holds of the limit itself too
is_very_large_inclusive(size) == size >= SizeLimit

\* size > 100 * 1024 * 1024
is_very_large(size) == size > SizeLimit

check_file_exists(self, exists, isfile, size) ==
    IF ~exists THEN
        [self |-> add_issue(self, ERROR, "File Access", "File not found", <<>>, <<>>),
         ok |-> FALSE]
    ELSE IF ~isfile THEN
        [self |-> add_issue(self, ERROR, "File Access", "Path is not a file", <<>>, <<>>),
         ok |-> FALSE]
    ELSE
        LET s1 == set_stat(set_stat(self, "file_size", size),
                           "file_size_mb", file_size_mb_x100(size))
        IN  IF size = 0 THEN
                [self |-> add_issue(s1, ERROR, "File Access", "File is empty (0 bytes)", <<>>, <<>>),
                 ok |-> FALSE]
            ELSE IF is_very_large(size) THEN
                [self |-> add_issue(s1, WARNING, "File Size", "File is very large", <<>>,
                                    <<file_size_mb_x100(size)>>),
                 ok |-> TRUE]
            ELSE [self |-> s1, ok |-> TRUE]

PrintRaises ==
    /\ pc = "start"
    /\ pc' = "raised"
    /\ UNCHANGED <<issues, stats, zip_file, namelist, passed, stdout, anomalies, driver>>

StatRaises ==
    /\ pc = "start"
    /\ stdout' = Append(stdout, "Analyzing")
    /\ pc' = "raised"
    /\ UNCHANGED <<issues, stats, zip_file, namelist, passed, anomalies, driver>>

CheckFileExists ==
    /\ pc = "start"
    /\ stdout' = Append(stdout, "Analyzing")
    /\ \E exists \in BOOLEAN, isfile \in BOOLEAN, size \in Sizes :
         LET r == check_file_exists(Self, exists, isfile, size)
             cost == IF ~r.ok \/ size > SizeLimit THEN 1 ELSE 0
         IN  /\ Affordable(cost)
             /\ anomalies' = anomalies + cost
             /\ issues' = r.self.issues
             /\ stats' = r.self.stats
             /\ IF r.ok
                   THEN pc' = "zip" /\ passed' = passed
                   ELSE pc' = "returned" /\ passed' = "False"
    /\ UNCHANGED <<zip_file, namelist, driver>>

----------------------------------------------------------------------------
(* Check 2: _check_zip_structure.  Outcomes of opening and testing the     *)
(* archive:                                                                *)
(*   "bad_zip_open"  zipfile.ZipFile raises BadZipFile (no handle)         *)
(*   "error_open"    zipfile.ZipFile raises another exception (no handle)  *)
(*   "bad_member"    testzip returns the name of a corrupted member        *)
(*   "bad_zip_test"  testzip raises BadZipFile (bad local header magic)    *)
(*   "error_test"    testzip raises another exception                      *)
(*   "ok"            the archive opens and every member passes             *)

ZipOutcomes ==
    {"bad_zip_open", "error_open", "bad_member", "bad_zip_test", "error_test", "ok"}

zip_handle_after(outcome) ==
    IF outcome \in {"bad_zip_open", "error_open"} THEN "None" ELSE "open"

\* a failed archive test that reports the error and lets the run go on
check_zip_structure_goes_on(self, outcome, names) ==
    CASE outcome = "bad_member" ->
            [self |-> add_issue(self, ERROR, "ZIP Structure", "Corrupted file in archive", <<>>, <<>>),
             ok |-> TRUE]
      [] outcome \in {"bad_zip_open", "bad_zip_test"} ->
            [self |-> add_issue(self, ERROR, "ZIP Structure", "Invalid ZIP archive", <<>>, <<>>),
             ok |-> FALSE]
      [] outcome \in {"error_open", "error_test"} ->
            [self |-> add_issue(self, ERROR, "ZIP Structure", "Error reading file", <<>>, <<>>),
             ok |-> FALSE]
      [] OTHER ->
            [self |-> set_stat(self, "zip_files", Cardinality(names)), ok |-> TRUE]

check_zip_structure(self, outcome, names) ==
    CASE outcome = "bad_member" ->
            [self |-> add_issue(self, ERROR, "ZIP Structure", "Corrupted file in archive", <<>>, <<>>),
             ok |-> FALSE]
      [] outcome \in {"bad_zip_open", "bad_zip_test"} ->
            [self |-> add_issue(self, ERROR, "ZIP Structure", "Invalid ZIP archive", <<>>, <<>>),
             ok |-> FALSE]
      [] outcome \in {"error_open", "error_test"} ->
            [self |-> add_issue(self, ERROR, "ZIP Structure", "Error reading file", <<>>, <<>>),
             ok |-> FALSE]
      [] OTHER ->
            [self |-> set_stat(self, "zip_files", Cardinality(names)), ok |-> TRUE]

CheckZipStructure ==
    /\ pc = "zip"
    /\ \E outcome \in ZipOutcomes, names \in SUBSET Parts :
         LET r == check_zip_structure(Self, outcome, names)
             cost == Cardinality(StandardParts \ names) + Cardinality(ExtraParts \cap names)
         IN  /\ IF outcome = "ok"
                   THEN Affordable(cost) /\ anomalies' = anomalies + cost
                   ELSE names = {} /\ Affordable(1) /\ anomalies' = anomalies + 1
             /\ zip_file' = zip_handle_after(outcome)
             /\ namelist' = IF zip_handle_after(outcome) = "open" THEN names ELSE {}
             /\ issues' = r.self.issues
             /\ stats' = r.self.stats
             /\ IF r.ok
                   THEN pc' = "required" /\ passed' = passed
                   ELSE pc' = "returned" /\ passed' = "False"
    /\ UNCHANGED <<stdout, driver>>

----------------------------------------------------------------------------
(* Check 3: _check_required_files.  It has no try block and returns nothing *)

RECURSIVE report_missing_required(_, _, _)
report_missing_required(self, names, i) ==
    IF i > Len(REQUIRED_FILES) THEN self
    ELSE report_missing_required(
            IF REQUIRED_FILES[i] \notin names
               THEN add_issue(self, ERROR, "DOCX Structure", "Missing required file",
                              <<REQUIRED_FILES[i]>>, <<>>)
               ELSE self,
            names, i + 1)

RECURSIVE report_missing_optional(_, _, _)
report_missing_optional(self, names, i) ==
    IF i > Len(optional_files) THEN self
    ELSE report_missing_optional(
            IF optional_files[i] \notin names
               THEN add_issue(self, INFO, "DOCX Structure", optional_messages[i],
                              <<optional_files[i]>>, <<>>)
               ELSE self,
            names, i + 1)

check_required_files(self, handle, names) ==
    IF handle = "None" THEN self
    ELSE report_missing_optional(report_missing_required(self, names, 1), names, 1)

\* a structural check that ends the run when a mandatory part is missing
CheckRequiredFilesAborts ==
    /\ pc = "required"
    /\ LET s == check_required_files(Self, zip_file, namelist)
       IN  /\ issues' = s.issues
           /\ stats' = s.stats
           /\ IF \E i \in 1..Len(REQUIRED_FILES) : REQUIRED_FILES[i] \notin namelist
                 THEN pc' = "returned" /\ passed' = "False"
                 ELSE pc' = "analyze" /\ passed' = passed
    /\ UNCHANGED <<zip_file, namelist, stdout, anomalies, driver>>

CheckRequiredFiles ==
    /\ pc = "required"
    /\ LET s == check_required_files(Self, zip_file, namelist)
       IN  issues' = s.issues /\ stats' = s.stats
    /\ pc' = "analyze"
    /\ UNCHANGED <<zip_file, namelist, passed, stdout, anomalies, driver>>

RequiredRaises ==
    /\ pc = "required"
    /\ pc' = "raised"
    /\ UNCHANGED <<issues, stats, zip_file, namelist, passed, stdout, anomalies, driver>>

----------------------------------------------------------------------------
(* The parsed tree of word/document.xml: the elements the checks look for. *)
(* The checks count elements and never compare positions, so a tree is     *)
(* drawn once per multiset, in the order of ElementKinds.                  *)
(* "insdel" is a w:ins that contains one w:del;                            *)
(* "sdt" a w:sdt without lock and "sdtLocked" one whose w:lock value is    *)
(* sdtLocked (the other kinds of w:sdt are under _check_content_controls); *)
(* "instrText" a w:instrText whose text holds none of the markers,         *)
(* "instrTOC" one whose text holds TOC, "instrPAGE" one whose text holds   *)
(* PAGE and no marker tested before it;                                    *)
(* "hyperlink" a w:hyperlink with an r:id, "hyperlinkAnchor" one with a    *)
(* w:anchor and no r:id, "hyperlinkBroken" one with neither;               *)
(* "custom" an element of a namespace that is not in NAMESPACES.           *)

ElementKinds ==
    <<"ins", "del", "insdel", "pPrChange", "rPrChange", "smartTag", "sdt",
      "sdtLocked", "fldChar", "instrText", "instrTOC", "instrPAGE", "oMath",
      "oMathPara", "hyperlink", "hyperlinkAnchor", "hyperlinkBroken", "custom">>

\* the trees of at most n elements
Trees(n) ==
    {[i \in DOMAIN t |-> ElementKinds[t[i]]] : t \in SortedSeqs(n, 1, Len(ElementKinds))}

\* len(root.findall('.//kind'))
findall(root, kind) == Cardinality({i \in DOMAIN root : root[i] = kind})

----------------------------------------------------------------------------
(* The seven element-specific checks *)

\* a severity that is still WARNING at the threshold
revision_severity_inclusive(total_revisions) ==
    IF total_revisions <= RevisionErrorThreshold THEN WARNING ELSE ERROR

\* Severity.WARNING if total_revisions < 100 else Severity.ERROR
revision_severity(total_revisions) ==
    IF total_revisions < RevisionErrorThreshold THEN WARNING ELSE ERROR

(* The elements of a kind, in document order: tag, and parent, the place  *)
(* of the parent element in the list, 0 for an element that has no parent  *)
(* among them.  A kind of several elements is a w:ins or w:del with        *)
(* elements inside it: "insdel" is w:ins > w:del, "insrdel" is             *)
(* w:ins > w:r > w:del, "insinsdel" is w:ins > w:ins > w:del and "delins"  *)
(* is w:del > w:ins.                                                       *)
elements_of(kind) ==
    CASE kind = "insdel" ->
            <<[tag |-> "ins", parent |-> 0], [tag |-> "del", parent |-> 1]>>
      [] kind = "insrdel" ->
            <<[tag |-> "ins", parent |-> 0], [tag |-> "r", parent |-> 1],
              [tag |-> "del", parent |-> 2]>>
      [] kind = "insinsdel" ->
            <<[tag |-> "ins", parent |-> 0], [tag |-> "ins", parent |-> 1],
              [tag |-> "del", parent |-> 2]>>
      [] kind = "delins" ->
            <<[tag |-> "del", parent |-> 0], [tag |-> "ins", parent |-> 1]>>
      [] OTHER -> <<[tag |-> kind, parent |-> 0]>>

\* len(root.findall('.//w:tag')): the elements of that tag at any depth
findall_tag(root, tag) ==
    Cardinality(UNION {{<<i, k>> : k \in {n \in DOMAIN elements_of(root[i]) :
                                            elements_of(root[i])[n].tag = tag}} :
                       i \in DOMAIN root})

\* element d of the list t lies inside element a
RECURSIVE is_inside(_, _, _)
is_inside(t, d, a) ==
    /\ t[d].parent # 0
    /\ (t[d].parent = a \/ is_inside(t, t[d].parent, a))

\* ins.findall('.//w:del') is not empty, for the element at place k of t
nested_del(t, k) == \E d \in DOMAIN t : t[d].tag = "del" /\ is_inside(t, d, k)

RECURSIVE report_nested(_, _, _, _)

\* a loop that goes on to the next insertion after it has reported one
next_insertion(self, root, i, k) == report_nested(self, root, i, k + 1)

\* break (line 454)
break(self, root, i, k) == self

\* for ins in insertions (lines 445-454), from element k of root[i] on
report_nested(self, root, i, k) ==
    IF i > Len(root) THEN self
    ELSE LET t == elements_of(root[i])
         IN  IF k > Len(t) THEN report_nested(self, root, i + 1, 1)
             ELSE IF t[k].tag = "ins" /\ nested_del(t, k)
             THEN break(add_issue(self, WARNING, "Nested Revisions",
                                  "Found deletions nested inside insertions", <<>>, <<>>),
                        root, i, k)
             ELSE report_nested(self, root, i, k + 1)

check_tracked_changes(self, root) ==
    LET insertions == findall_tag(root, "ins")
        deletions == findall_tag(root, "del")
        para_changes == findall(root, "pPrChange")
        run_changes == findall(root, "rPrChange")
        total_revisions == insertions + deletions + para_changes + run_changes
        s1 == set_stat(self, "tracked_changes",
                       [insertions |-> insertions, deletions |-> deletions,
                        paragraph_changes |-> para_changes,
                        run_changes |-> run_changes, total |-> total_revisions])
        severity == revision_severity(total_revisions)
        s2 == add_issue(s1, severity, "Tracked Changes", "Document contains tracked change(s)",
                        <<>>, <<total_revisions, insertions, deletions, para_changes, run_changes>>)
    IN  IF total_revisions > 0 THEN report_nested(s2, root, 1, 1) ELSE s1

check_smart_tags(self, root) ==
    LET smart_tags == findall(root, "smartTag")
        s1 == set_stat(self, "smart_tags", smart_tags)
    IN  IF smart_tags > 0
        THEN add_issue(s1, WARNING, "Smart Tags", "Document contains deprecated smart tag(s)",
                       <<>>, <<smart_tags>>)
        ELSE s1

(* The kinds of w:sdt: "sdt" has no w:sdtPr child, "sdtNoLock" a w:sdtPr   *)
(* without w:lock, "sdtNoVal" a w:lock without w:val; the others a w:lock  *)
(* with the value lock_val gives.                                          *)
SdtKinds ==
    <<"sdt", "sdtNoLock", "sdtNoVal", "sdtUnlocked", "sdtLocked", "sdtContentOnly",
      "sdtContentLocked">>

\* the elements root.findall('.//w:sdt') returns
is_sdt(kind) == \E k \in DOMAIN SdtKinds : SdtKinds[k] = kind

\* sdt.find('w:sdtPr') is not None
has_sdt_pr(kind) == kind # "sdt"

\* sdt_pr.find('w:lock') is not None
has_lock(kind) == kind \notin {"sdt", "sdtNoLock"}

\* lock.get('w:val', '')
lock_val(kind) ==
    CASE kind = "sdtUnlocked" -> "unlocked"
      [] kind = "sdtLocked" -> "sdtLocked"
      [] kind = "sdtContentOnly" -> "contentLocked"
      [] kind = "sdtContentLocked" -> "sdtContentLocked"
      [] OTHER -> ""

\* a test that takes every w:lock element for a lock
is_locked_by_element(kind) == has_sdt_pr(kind) /\ has_lock(kind)

\* lines 485-491
is_locked(kind) ==
    /\ has_sdt_pr(kind)
    /\ has_lock(kind)
    /\ lock_val(kind) \in {"sdtLocked", "contentLocked", "sdtContentLocked"}

check_content_controls(self, root) ==
    LET sdt_elements == Cardinality({i \in DOMAIN root : is_sdt(root[i])})
        locked_count ==
            Cardinality({i \in DOMAIN root : is_sdt(root[i]) /\ is_locked(root[i])})
        s1 == set_stat(self, "content_controls", sdt_elements)
    IN  IF sdt_elements > 0
        THEN IF locked_count > 0
             THEN add_issue(s1, WARNING, "Content Controls",
                            "Document contains locked content control(s)", <<>>, <<locked_count>>)
             ELSE add_issue(s1, INFO, "Content Controls",
                            "Document contains content control(s)", <<>>, <<sdt_elements>>)
        ELSE s1

\* the markers of lines 521-531 and a field name that holds none of them
TOC_ == <<"T", "O", "C">>
REF_ == <<"R", "E", "F">>
HYPERLINK_ == <<"H", "Y", "P", "E", "R", "L", "I", "N", "K">>
MERGEFIELD_ == <<"M", "E", "R", "G", "E", "F", "I", "E", "L", "D">>
PAGE_ == <<"P", "A", "G", "E">>
DATE_ == <<"D", "A", "T", "E">>
TIME_ == <<"T", "I", "M", "E">>
AUTHOR_ == <<"A", "U", "T", "H", "O", "R">>

(* A text is a sequence of characters.  The w:instrText elements of a     *)
(* tree are "instrText", "instrTOC" and "instrPAGE", whose texts are       *)
(* AUTHOR, TOC and PAGE, and "instr1", "instr2", ..., whose texts are      *)
(* given with the tree, in arg.texts.                                      *)
InstrNames == <<"instr1", "instr2">>

\* the elements root.findall('.//w:instrText') returns
is_instr_text(kind) ==
    \/ kind \in {"instrText", "instrTOC", "instrPAGE"}
    \/ \E k \in DOMAIN InstrNames : InstrNames[k] = kind

\* instr.text or ''
instr_text(kind) ==
    CASE kind = "instrText" -> AUTHOR_
      [] kind = "instrTOC" -> TOC_
      [] kind = "instrPAGE" -> PAGE_
      [] OTHER -> arg.texts[CHOOSE k \in DOMAIN InstrNames : InstrNames[k] = kind]

LowerCase ==
    <<"a", "b", "c", "d", "e", "f", "g", "h", "i", "j", "k", "l", "m",
      "n", "o", "p", "q", "r", "s", "t", "u", "v", "w", "x", "y", "z">>

UpperCase ==
    <<"A", "B", "C", "D", "E", "F", "G", "H", "I", "J", "K", "L", "M",
      "N", "O", "P", "Q", "R", "S", "T", "U", "V", "W", "X", "Y", "Z">>

\* an upper that leaves the text as it is
upper_keeps_case(text) == text

\* text.upper(), for texts of ASCII characters
upper(text) ==
    [i \in DOMAIN text |->
        IF \E k \in DOMAIN LowerCase : LowerCase[k] = text[i]
        THEN UpperCase[CHOOSE k \in DOMAIN LowerCase : LowerCase[k] = text[i]]
        ELSE text[i]]

\* marker in text
contains(marker, text) ==
    \E o \in 0..(Len(text) - Len(marker)) :
        \A j \in DOMAIN marker : text[o + j] = marker[j]

\* what the if/elif chain of lines 519-532 appends for one element
field_type(kind) ==
    LET text == instr_text(kind)
    IN  IF contains(TOC_, upper(text)) THEN <<"Table of Contents">>
        ELSE IF contains(REF_, upper(text)) THEN <<"Cross-reference">>
        ELSE IF contains(HYPERLINK_, upper(text)) THEN <<"Hyperlink">>
        ELSE IF contains(MERGEFIELD_, upper(text)) THEN <<"Mail Merge">>
        ELSE IF contains(PAGE_, upper(text)) THEN <<"Page Number">>
        ELSE IF contains(DATE_, upper(text)) \/ contains(TIME_, upper(text))
        THEN <<"Date/Time">>
        ELSE <<>>

\* set(field_types)
field_type_set(root) ==
    {field_type(root[i])[1] :
        i \in {j \in DOMAIN root : is_instr_text(root[j]) /\ field_type(root[j]) # <<>>}}

\* list(set(...)): the elements of the set in some order.  The order of a
\* set of strings follows their hashes, which are salted anew in every
\* interpreter process.
Orders(S) ==
    {f \in [1..Cardinality(S) -> S] : \A i, j \in DOMAIN f : i # j => f[i] # f[j]}

\* unique_types is list(set(field_types)), one of Orders(field_type_set(root))
check_field_codes(self, root, unique_types) ==
    LET field_chars == findall(root, "fldChar")
        instr_texts == Cardinality({i \in DOMAIN root : is_instr_text(root[i])})
        s1 == set_stat(self, "field_codes", field_chars)
    IN  IF field_chars > 0 \/ instr_texts > 0
        THEN add_issue(s1, INFO, "Field Codes", "Document contains field code(s)",
                       IF unique_types # <<>> THEN unique_types ELSE <<"Unknown">>,
                       <<field_chars>>)
        ELSE s1

check_equations(self, root) ==
    LET total_equations == findall(root, "oMath") + findall(root, "oMathPara")
        s1 == set_stat(self, "equations", total_equations)
    IN  IF total_equations > 0
        THEN add_issue(s1, INFO, "Equations", "Document contains equation(s)",
                       <<>>, <<total_equations>>)
        ELSE s1

\* the elements root.findall('.//w:hyperlink') returns
is_hyperlink(kind) == kind \in {"hyperlink", "hyperlinkAnchor", "hyperlinkBroken"}

\* hl.get('r:id') and hl.get('w:anchor'); "" is what not r_id holds of: the
\* attribute is absent (None) or its value is empty
r_id(kind) == IF kind = "hyperlink" THEN "rId1" ELSE ""

anchor(kind) == IF kind = "hyperlinkAnchor" THEN "bookmark1" ELSE ""

\* a test that looks at the relationship id only
is_broken_without_r_id(kind) == r_id(kind) = ""

\* not r_id and not anchor
is_broken(kind) == r_id(kind) = "" /\ anchor(kind) = ""

check_hyperlinks(self, root) ==
    LET hyperlinks == Cardinality({i \in DOMAIN root : is_hyperlink(root[i])})
        broken_count ==
            Cardinality({i \in DOMAIN root : is_hyperlink(root[i]) /\ is_broken(root[i])})
        s1 == set_stat(self, "hyperlinks", hyperlinks)
    IN  IF hyperlinks > 0
        THEN IF broken_count > 0
             THEN add_issue(s1, WARNING, "Hyperlinks",
                            "Found hyperlink(s) without target reference", <<>>, <<broken_count>>)
             ELSE add_issue(s1, INFO, "Hyperlinks", "Document contains hyperlink(s)",
                            <<>>, <<hyperlinks>>)
        ELSE s1

\* every "custom" element of the model is in the same custom namespace
check_namespaces(self, root) ==
    LET custom_ns == IF findall(root, "custom") > 0 THEN 1 ELSE 0
    IN  IF custom_ns > 0
        THEN add_issue(self, INFO, "Custom Namespaces", "Document contains custom namespace(s)",
                       <<>>, <<custom_ns>>)
        ELSE self

(* The calls of _analyze_document_xml lines 328-334, in order.  raise_at is *)
(* the check inside which an exception is raised (0: none); the exception   *)
(* leaves the try body, so the calls after it are not made.                 *)
(* The exception is one that except Exception (line 342) handles; it is    *)
(* raised before the check has written anything.                           *)

NumSemanticChecks == 7

semantic_check(k, self, root, unique_types) ==
    CASE k = 1 -> check_tracked_changes(self, root)
      [] k = 2 -> check_smart_tags(self, root)
      [] k = 3 -> check_content_controls(self, root)
      [] k = 4 -> check_field_codes(self, root, unique_types)
      [] k = 5 -> check_equations(self, root)
      [] k = 6 -> check_hyperlinks(self, root)
      [] OTHER -> check_namespaces(self, root)

RECURSIVE run_semantic_checks(_, _, _, _, _)
run_semantic_checks(k, self, root, raise_at, unique_types) ==
    IF k > NumSemanticChecks THEN [self |-> self, raised |-> FALSE]
    ELSE IF k = raise_at THEN [self |-> self, raised |-> TRUE]
    ELSE run_semantic_checks(k + 1, semantic_check(k, self, root, unique_types),
                             root, raise_at, unique_types)

----------------------------------------------------------------------------
(* Check 4: _analyze_document_xml.  What it reads of word/document.xml:    *)
(*   decode_error  e.start of content.decode('utf-8'), -1 when it decodes  *)
(*   text          the decoded text, as a sequence of code points          *)
(*   wellformed    whether ET.fromstring(content) returns a tree           *)
(*   root          that tree                                               *)
(* ET.fromstring is given the bytes, not the decoded text, so a part in    *)
(* another declared encoding (UTF-16, ISO-8859-1) fails to decode as UTF-8 *)
(* and still parses.                                                       *)

(* DocxDiagnostic.INVALID_CHAR_RANGES *)
INVALID_CHAR_RANGES ==
    << <<0, 8>>, <<11, 12>>, <<14, 31>>, <<127, 127>>, <<65534, 65535>> >>

\* '\n' and '\r'
LF == 10
CR == 13

\* hex(code): "0x" and the digits of code in base 16, lower case, no padding
HexDigits ==
    <<"0", "1", "2", "3", "4", "5", "6", "7", "8", "9", "a", "b", "c", "d", "e", "f">>

RECURSIVE hex_digits(_)
hex_digits(n) ==
    IF n < 16 THEN HexDigits[n + 1]
    ELSE hex_digits(n \div 16) \o HexDigits[(n % 16) + 1]

hex(code) == "0x" \o hex_digits(code)

\* any(start <= code <= end for start, end in INVALID_CHAR_RANGES)
in_invalid_range(code) ==
    \E k \in DOMAIN INVALID_CHAR_RANGES :
        INVALID_CHAR_RANGES[k][1] <= code /\ code <= INVALID_CHAR_RANGES[k][2]

\* a line number that counts lines from 0
line_num_from_zero(text, i) == Cardinality({j \in 1..i : text[j] = LF})

\* text[:i].count('\n') + 1, i counted from 0
line_num(text, i) == Cardinality({j \in 1..i : text[j] = LF}) + 1

\* .replace('\n', '\\n').replace('\r', '\\r') on a text of code points
RECURSIVE escape_newlines(_)
escape_newlines(t) ==
    IF t = <<>> THEN <<>>
    ELSE (IF Head(t) = LF THEN <<92, 110>>
          ELSE IF Head(t) = CR THEN <<92, 114>>
          ELSE <<Head(t)>>) \o escape_newlines(Tail(t))

ContextRadius == 20

\* text[max(0, i - 20):min(len(text), i + 20)], escaped
context_of(text, i) ==
    LET ctx_start == IF i - ContextRadius > 0 THEN i - ContextRadius ELSE 0
        ctx_end == IF Len(text) < i + ContextRadius THEN Len(text) ELSE i + ContextRadius
    IN  escape_newlines(SubSeq(text, ctx_start + 1, ctx_end))

\* the loop of lines 365-383 from position i (counted from 0) on
RECURSIVE scan_from(_, _, _)
scan_from(text, i, invalid_found) ==
    IF i >= Len(text) THEN invalid_found
    ELSE LET code == text[i + 1]
         IN  scan_from(text, i + 1,
                       IF in_invalid_range(code)
                       THEN Append(invalid_found,
                                   [char |-> hex(code), position |-> i,
                                    line |-> line_num(text, i),
                                    context |-> context_of(text, i)])
                       ELSE invalid_found)

invalid_found_in(text) == scan_from(text, 0, <<>>)

\* char_counts of lines 387-389: the keys in order of first occurrence
RECURSIVE char_keys(_, _)
char_keys(found, keys) ==
    IF found = <<>> THEN keys
    ELSE char_keys(Tail(found),
                   IF \E k \in DOMAIN keys : keys[k] = Head(found).char
                   THEN keys ELSE Append(keys, Head(found).char))

\* a count that gives every key the number of all occurrences
char_count_of_all(found, key) == Len(found)

\* char_counts[key] after the loop of lines 388-389
char_count(found, key) == Cardinality({k \in DOMAIN found : found[k].char = key})

\* the text of k vertical tabs
VTabs(k) == [i \in 1..k |-> 11]

content_cost(c) ==
    (IF c.decode_error >= 0 THEN 1 ELSE 0) + Len(c.text)
    + (IF c.wellformed THEN 0 ELSE 1) + Len(c.root)

\* the contents of at most n anomalies; the text of a part is as long as
\* its invalid characters, the characters around them left out
Contents(n) ==
    {c \in [decode_error : -1..MaxOffset, text : {VTabs(k) : k \in 0..n},
            wellformed : BOOLEAN, root : Trees(n)] :
        /\ c.decode_error >= 0 => c.text = <<>>
        /\ ~c.wellformed => c.root = <<>>
        /\ content_cost(c) <= n}

\* self.verbose, set by DocxDiagnostic.__init__ from its argument
verbose == arg.verbose

DetailLimit == 5

\* for item in invalid_found[:5]: add_issue(...)
RECURSIVE add_details(_, _, _)
add_details(self, found, i) ==
    IF i > Len(found) \/ i > DetailLimit THEN self
    ELSE add_details(add_issue_with_context(
                         self, INFO, "Invalid Character Detail",
                         "Character at line, position",
                         <<found[i].char>>, <<found[i].line, found[i].position>>,
                         found[i].context),
                     found, i + 1)

check_invalid_characters(self, content, filename) ==
    IF content.decode_error >= 0
    THEN add_issue(self, ERROR, "Encoding", "Invalid UTF-8 encoding",
                   <<filename>>, <<content.decode_error>>)
    ELSE LET found == invalid_found_in(content.text)
             keys == char_keys(found, <<>>)
         IN  IF found # <<>>
             THEN LET s1 == add_issue_with_context(
                                self, ERROR, "Invalid Characters",
                                "Found invalid XML character(s)",
                                <<filename>> \o keys,
                                <<Len(found)>> \o
                                    [k \in DOMAIN keys |-> char_count(found, keys[k])],
                                found[1].context)
                  IN  IF verbose THEN add_details(s1, found, 1) ELSE s1
             ELSE self

\* the except ET.ParseError branch without its return
analyze_document_xml_no_return(self, handle, names, content, raise_at, unique_types) ==
    IF handle = "None" THEN self
    ELSE IF "word/document.xml" \notin names
    THEN add_issue(self, ERROR, "DOCX Structure", "document.xml not found in archive", <<>>, <<>>)
    ELSE LET s1 == check_invalid_characters(self, content, "word/document.xml")
             s2 == IF ~content.wellformed
                   THEN add_issue(s1, ERROR, "XML Parsing", "Failed to parse document.xml",
                                  <<>>, <<>>)
                   ELSE s1
             r == run_semantic_checks(1, s2, content.root, raise_at, unique_types)
         IN  IF r.raised
             THEN add_issue(r.self, ERROR, "Analysis", "Error analyzing document.xml", <<>>, <<>>)
             ELSE r.self

analyze_document_xml(self, handle, names, content, raise_at, unique_types) ==
    IF handle = "None" THEN self
    ELSE IF "word/document.xml" \notin names
    THEN \* zip_file.open raises KeyError
         add_issue(self, ERROR, "DOCX Structure", "document.xml not found in archive", <<>>, <<>>)
    ELSE LET s1 == check_invalid_characters(self, content, "word/document.xml")
         IN  IF ~content.wellformed
             THEN add_issue(s1, ERROR, "XML Parsing", "Failed to parse document.xml", <<>>, <<>>)
             ELSE LET r == run_semantic_checks(1, s1, content.root, raise_at,
                                               unique_types)
                  IN  IF r.raised
                      THEN add_issue(r.self, ERROR, "Analysis",
                                     "Error analyzing document.xml", <<>>, <<>>)
                      ELSE r.self

AnalyzeDocumentXml ==
    /\ pc = "analyze"
    /\ \E content \in Contents(Budget - anomalies), raise_at \in 0..NumSemanticChecks :
       \E unique_types \in Orders(field_type_set(content.root)) :
         LET reached == /\ zip_file # "None"
                        /\ "word/document.xml" \in namelist
             s == analyze_document_xml(Self, zip_file, namelist, content, raise_at,
                                       unique_types)
             cost == content_cost(content) + (IF raise_at > 0 THEN 1 ELSE 0)
         IN  /\ ~reached => content = [decode_error |-> -1, text |-> <<>>,
                                       wellformed |-> TRUE, root |-> <<>>]
             /\ raise_at > 0 => reached /\ content.wellformed
             /\ Affordable(cost)
             /\ anomalies' = anomalies + cost
             /\ issues' = s.issues
             /\ stats' = s.stats
    /\ pc' = "rels"
    /\ UNCHANGED <<zip_file, namelist, passed, stdout, driver>>

----------------------------------------------------------------------------
(* Check 5: _check_relationships.  A Relationship entry of the model:      *)
(*   TargetMode  the attribute ("" when absent)                            *)
(*   http        whether Target starts with 'http'                         *)
(*   found       whether target_path or alt_path is in namelist            *)
(*   Type        the Type attribute split at '/' (<<>> when empty)         *)

(* The check counts entries and collects their types into a set, so a      *)
(* list of entries is drawn once per multiset, in the order of RelEntries. *)

RelTypes == <<(<<>>), <<"relationships", "image">>, <<"relationships", "header">>>>

RelEntries ==
    LET T == Len(RelTypes)
    IN  [k \in 1..(8 * T) |->
            [TargetMode |-> IF ((k - 1) \div (4 * T)) % 2 = 1 THEN "External" ELSE "",
             http |-> ((k - 1) \div (2 * T)) % 2 = 1,
             found |-> ((k - 1) \div T) % 2 = 1,
             Type |-> RelTypes[((k - 1) % T) + 1]]]

\* the lists of at most n entries
RelLists(n) ==
    {[i \in DOMAIN t |-> RelEntries[t[i]]] : t \in SortedSeqs(n, 1, Len(RelEntries))}

\* a test that looks at the target mode only
is_external_by_mode(rel) == rel.TargetMode = "External"

\* target_mode == 'External' or target.startswith('http')
is_external(rel) == rel.TargetMode = "External" \/ rel.http

\* a type name taken from the front of the Type
type_name_first_segment(rel_type) == IF rel_type = <<>> THEN "unknown" ELSE rel_type[1]

\* rel_type.split('/')[-1] if rel_type else 'unknown'
type_name(rel_type) == IF rel_type = <<>> THEN "unknown" ELSE rel_type[Len(rel_type)]

external_refs(rels) == {i \in DOMAIN rels : is_external(rels[i])}

broken_refs(rels) == {i \in DOMAIN rels : ~is_external(rels[i]) /\ ~rels[i].found}

broken_types(rels) == {type_name(rels[i].Type) : i \in broken_refs(rels)}

\* outcome: "parsed", "ParseError" (ET.fromstring fails) or "Exception"
\* (any other exception raised in the try body, here while reading the part)
check_relationships(self, handle, names, outcome, rels, types) ==
    IF handle = "None" THEN self
    ELSE IF rels_path \notin names
    THEN add_issue(self, WARNING, "Relationships",
                   "Document relationships file not found", <<rels_path>>, <<>>)
    ELSE IF outcome = "ParseError"
    THEN add_issue(self, ERROR, "Relationships", "Failed to parse relationships", <<>>, <<>>)
    ELSE IF outcome = "Exception"
    THEN add_issue(self, WARNING, "Relationships", "Error checking relationships", <<>>, <<>>)
    ELSE LET s1 == set_stat(self, "relationships", Len(rels))
             nbroken == Cardinality(broken_refs(rels))
             nexternal == Cardinality(external_refs(rels))
             s2 == IF nbroken > 0
                   THEN add_issue(s1, WARNING, "Broken References",
                                  "Found broken internal reference(s)", types, <<nbroken>>)
                   ELSE s1
         IN  IF nexternal > 0
             THEN add_issue(set_stat(s2, "external_refs", nexternal), INFO,
                            "External References",
                            "Document contains external reference(s) (URLs)",
                            <<>>, <<nexternal>>)
             ELSE s2

CheckRelationships ==
    /\ pc = "rels"
    /\ \E outcome \in {"parsed", "ParseError", "Exception"},
          rels \in RelLists(Budget - anomalies) :
         \E types \in Orders(broken_types(rels)) :
           LET reached == zip_file # "None" /\ rels_path \in namelist
               s == check_relationships(Self, zip_file, namelist, outcome, rels, types)
               cost == Len(rels) + (IF outcome = "parsed" THEN 0 ELSE 1)
           IN  /\ ~reached => outcome = "parsed"
               /\ (~reached \/ outcome # "parsed") => rels = <<>>
               /\ Affordable(cost)
               /\ anomalies' = anomalies + cost
               /\ issues' = s.issues
               /\ stats' = s.stats
    /\ pc' = "embedded"
    /\ UNCHANGED <<zip_file, namelist, passed, stdout, driver>>

----------------------------------------------------------------------------
(* Check 6: _check_embedded_objects.  It has no try block.                 *)

\* a test for the folder name without its slash
in_embeddings_or_beside(f) ==
    startswith(NameChars[f],
        <<"w", "o", "r", "d", "/", "e", "m", "b", "e", "d", "d", "i",
        "n", "g", "s">>)

\* f.startswith('word/embeddings/')
in_embeddings(f) == startswith(NameChars[f],
        <<"w", "o", "r", "d", "/", "e", "m", "b", "e", "d", "d", "i",
        "n", "g", "s", "/">>)

\* f.startswith('word/media/')
in_media(f) == startswith(NameChars[f],
        <<"w", "o", "r", "d", "/", "m", "e", "d", "i", "a", "/">>)

\* f.endswith('.bin')
ends_with_bin(f) == endswith(NameChars[f], <<".", "b", "i", "n">>)

check_embedded_objects(self, handle, names) ==
    IF handle = "None" THEN self
    ELSE LET embeddings == {f \in names : in_embeddings(f)}
             ole_objects == {f \in embeddings : ends_with_bin(f)}
             other_objects == {f \in embeddings : ~ends_with_bin(f)}
             media == {f \in names : in_media(f)}
             s1 == set_stat(self, "embedded_objects", Cardinality(embeddings))
             s2 == IF embeddings # {}
                   THEN add_issue(s1, WARNING, "Embedded Objects",
                                  "Document contains embedded object(s)", <<>>,
                                  <<Cardinality(embeddings), Cardinality(ole_objects),
                                    Cardinality(other_objects)>>)
                   ELSE s1
             s3 == set_stat(s2, "media_files", Cardinality(media))
         IN  IF media # {}
             THEN add_issue(s3, INFO, "Media Files", "Document contains media file(s)",
                            <<>>, <<Cardinality(media)>>)
             ELSE s3

CheckEmbeddedObjects ==
    /\ pc = "embedded"
    /\ LET s == check_embedded_objects(Self, zip_file, namelist)
       IN  issues' = s.issues /\ stats' = s.stats
    /\ pc' = "close"
    /\ UNCHANGED <<zip_file, namelist, passed, stdout, anomalies, driver>>

EmbeddedRaises ==
    /\ pc = "embedded"
    /\ pc' = "raised"
    /\ UNCHANGED <<issues, stats, zip_file, namelist, passed, stdout, anomalies, driver>>

----------------------------------------------------------------------------
(* run_all_checks lines 195-199: close the handle and return               *)

close_zip(handle) == IF handle # "None" THEN "closed" ELSE handle

CloseAndReturn ==
    /\ pc = "close"
    /\ zip_file' = close_zip(zip_file)
    /\ passed' = IF count_severity(ERROR) = 0 THEN "True" ELSE "False"
    /\ pc' = "returned"
    /\ UNCHANGED <<issues, stats, namelist, stdout, anomalies, driver>>

----------------------------------------------------------------------------

Next ==
    \/ PrintRaises
    \/ StatRaises
    \/ CheckFileExists
    \/ CheckZipStructure
    \/ CheckRequiredFiles
    \/ RequiredRaises
    \/ AnalyzeDocumentXml
    \/ CheckRelationships
    \/ CheckEmbeddedObjects
    \/ EmbeddedRaises
    \/ CloseAndReturn

Spec == Init /\ [][Next]_vars

----------------------------------------------------------------------------
(* _check_invalid_characters on its own: one call on the bytes of a part.  *)
(* The bytes either fail to decode or decode to a text.                    *)

\* texts of at most this many code points,
MaxTextLen == 4
\* of which at most this many are neither a line feed nor a space
MaxOddChars == MaxTextLen \div 2

\* texts of one or two invalid characters with this many spaces before,
\* between and after them: the context window of an occurrence ends inside
\* the text, at its end, or takes in the other occurrence
Paddings == {0, ContextRadius - 1, ContextRadius, ContextRadius + 1}
\* texts of form feeds and carriage returns of at most this length: more
\* occurrences than the details show
MaxRunLen == DetailLimit + 2

\* the code points at and next to the ends of the ranges, and U+10000
Alphabet ==
    {0, 8, 9, 10, 11, 12, 13, 14, 31, 32, 126, 127, 128, 65533, 65534, 65535, 65536}

PlainChars == {LF, 32}

\* the texts of at most n code points, at most k of them not plain
Texts(n, k) ==
    UNION {{t \in [1..m -> Alphabet] :
               Cardinality({i \in 1..m : t[i] \notin PlainChars}) <= k} : m \in 0..n}

Spaces(n) == [i \in 1..n |-> 32]

PaddedTexts ==
    {Spaces(a) \o <<11>> \o Spaces(b) \o x \o Spaces(c) :
        a \in Paddings, b \in Paddings, c \in Paddings, x \in {<<>>, <<12>>, <<LF>>}}

RunTexts == UNION {[1..m -> {12, CR}] : m \in 0..MaxRunLen}

ScanInputs ==
    {[decode_error |-> -1, text |-> t, wellformed |-> TRUE, root |-> <<>>] :
        t \in Texts(MaxTextLen, MaxOddChars) \cup PaddedTexts \cup RunTexts}
    \cup {[decode_error |-> e, text |-> <<>>, wellformed |-> TRUE, root |-> <<>>] :
            e \in 0..MaxOffset}

ScanInit ==
    /\ pc = "scan"
    /\ issues = <<>>
    /\ stats = <<>>
    /\ zip_file = "open"
    /\ namelist = {"word/document.xml"}
    /\ passed = "unset"
    /\ stdout = <<>>
    /\ anomalies = 0
    /\ arg \in {[op |-> "check_invalid_characters", verbose |-> v, content |-> c] :
                    v \in BOOLEAN, c \in ScanInputs}
    /\ file_index = 0
    /\ results = <<>>
    /\ has_errors = FALSE
    /\ exit_code = -1
    /\ request = <<>>

ScanContent ==
    /\ pc = "scan"
    /\ LET s == check_invalid_characters(Self, arg.content, "word/document.xml")
       IN  issues' = s.issues /\ stats' = s.stats
    /\ pc' = "scanned"
    /\ UNCHANGED <<zip_file, namelist, passed, stdout, anomalies, driver>>

ScanNext == ScanContent

ScanSpec == ScanInit /\ [][ScanNext]_vars

----------------------------------------------------------------------------
(* The element-specific checks on their own: one call of one check on the  *)
(* parsed tree of a part.                                                  *)

\* trees of at most this many w:ins that hold no w:del,
MaxInsertions == 50
\* at most this many w:del outside every w:ins,
MaxDeletions == 50
\* and trees of at most this many w:hyperlink
MaxHyperlinks == 3
\* trees of at most this many insertions and deletions with elements inside
MaxRevisionKinds == 3
\* trees of at most this many w:sdt
MaxContentControls == 2
\* instruction texts put together from at most this many pieces
MaxPieces == 2
\* trees of at most this many field elements
MaxFields == 2

\* n elements of one kind
Rep(kind, n) == [i \in 1..n |-> kind]

RevisionTrees ==
    {Rep("insdel", d) \o Rep("ins", n) \o Rep("del", m) \o Rep("pPrChange", c) :
        d \in 0..1, n \in 0..MaxInsertions, m \in 0..MaxDeletions, c \in 0..1}

\* the insertions and deletions, one inside the other or not, and an
\* element that is neither
RevisionKinds == <<"ins", "del", "insdel", "insrdel", "insinsdel", "delins", "smartTag">>

\* trees of at most MaxRevisionKinds of them, in any order
NestedTrees ==
    UNION {{[i \in 1..m |-> RevisionKinds[t[i]]] : t \in [1..m -> DOMAIN RevisionKinds]} :
              m \in 0..MaxRevisionKinds}

HyperlinkKinds == <<"hyperlink", "hyperlinkAnchor", "hyperlinkBroken">>

HyperlinkTrees ==
    {[i \in DOMAIN t |-> HyperlinkKinds[t[i]]] :
        t \in SortedSeqs(MaxHyperlinks, 1, Len(HyperlinkKinds))}

SdtTrees ==
    {[i \in DOMAIN t |-> SdtKinds[t[i]]] :
        t \in SortedSeqs(MaxContentControls, 1, Len(SdtKinds))}

FieldKinds == <<"fldChar", "instrText", "instrTOC", "instrPAGE">>

FieldTrees ==
    {[i \in DOMAIN t |-> FieldKinds[t[i]]] : t \in SortedSeqs(MaxFields, 1, Len(FieldKinds))}

\* the markers, some of them in lower or mixed case, parts of markers and
\* characters that belong to none
Pieces ==
    {TOC_, REF_, HYPERLINK_, MERGEFIELD_, PAGE_, DATE_, TIME_,
     <<"t", "o", "c">>, <<"P", "a", "g", "e">>, <<"T">>, <<"O", "C">>, <<" ">>, <<"_">>, <<"e">>}

\* the texts of at most n pieces
RECURSIVE TextsOfPieces(_)
TextsOfPieces(n) ==
    IF n = 0 THEN {<<>>}
    ELSE LET shorter == TextsOfPieces(n - 1)
         IN  shorter \cup {t \o q : t \in shorter, q \in Pieces}

\* the field names of one marker each, and one of none
FieldNames == {TOC_, REF_, HYPERLINK_, MERGEFIELD_, PAGE_, DATE_, TIME_, AUTHOR_}

\* a tree of one w:instrText of any text, or of two of field names, with a
\* w:fldChar or without
InstrTrees ==
    {[root |-> f \o <<InstrNames[1]>>, texts |-> <<t>>] :
        f \in {<<>>, <<"fldChar">>}, t \in TextsOfPieces(MaxPieces)}
    \cup {[root |-> f \o <<InstrNames[1], InstrNames[2]>>, texts |-> <<t, u>>] :
            f \in {<<>>, <<"fldChar">>}, t \in FieldNames, u \in FieldNames}

ElementInit ==
    /\ pc = "tree"
    /\ issues = <<>>
    /\ stats = <<>>
    /\ zip_file = "open"
    /\ namelist = {"word/document.xml"}
    /\ passed = "unset"
    /\ stdout = <<>>
    /\ anomalies = 0
    /\ arg \in {[op |-> "semantic_check", verbose |-> FALSE, root |-> t,
                 texts |-> <<>>] :
                    t \in RevisionTrees \cup NestedTrees \cup HyperlinkTrees
                          \cup SdtTrees \cup FieldTrees}
               \cup {[op |-> "semantic_check", verbose |-> FALSE, root |-> t.root,
                      texts |-> t.texts] : t \in InstrTrees}
    /\ file_index = 0
    /\ results = <<>>
    /\ has_errors = FALSE
    /\ exit_code = -1
    /\ request = <<>>

CheckTrackedChanges ==
    /\ pc = "tree"
    /\ LET s == check_tracked_changes(Self, arg.root)
       IN  issues' = s.issues /\ stats' = s.stats
    /\ pc' = "tracked_changes"
    /\ UNCHANGED <<zip_file, namelist, passed, stdout, anomalies, driver>>

CheckHyperlinks ==
    /\ pc = "tree"
    /\ LET s == check_hyperlinks(Self, arg.root)
       IN  issues' = s.issues /\ stats' = s.stats
    /\ pc' = "hyperlinks"
    /\ UNCHANGED <<zip_file, namelist, passed, stdout, anomalies, driver>>

CheckContentControls ==
    /\ pc = "tree"
    /\ LET s == check_content_controls(Self, arg.root)
       IN  issues' = s.issues /\ stats' = s.stats
    /\ pc' = "content_controls"
    /\ UNCHANGED <<zip_file, namelist, passed, stdout, anomalies, driver>>

CheckFieldCodes ==
    /\ pc = "tree"
    /\ \E unique_types \in Orders(field_type_set(arg.root)) :
         LET s == check_field_codes(Self, arg.root, unique_types)
         IN  issues' = s.issues /\ stats' = s.stats
    /\ pc' = "field_codes"
    /\ UNCHANGED <<zip_file, namelist, passed, stdout, anomalies, driver>>

ElementNext ==
    \/ CheckTrackedChanges
    \/ CheckHyperlinks
    \/ CheckContentControls
    \/ CheckFieldCodes

ElementSpec == ElementInit /\ [][ElementNext]_vars

----------------------------------------------------------------------------
(* _check_relationships on its own: one call on a package that holds       *)
(* word/_rels/document.xml.rels, or on one that does not.                  *)

\* relationship parts of at most this many entries
MaxRels == 2

RelsInputs ==
    {[outcome |-> "parsed", rels |-> r] : r \in RelLists(MaxRels)}
    \cup {[outcome |-> o, rels |-> <<>>] : o \in {"ParseError", "Exception"}}

RelsInit ==
    /\ pc = "rels_part"
    /\ issues = <<>>
    /\ stats = <<>>
    /\ zip_file = "open"
    /\ namelist \in {{rels_path}, {}}
    /\ passed = "unset"
    /\ stdout = <<>>
    /\ anomalies = 0
    /\ arg \in {[op |-> "check_relationships", verbose |-> FALSE, part |-> x] :
                    x \in RelsInputs}
    /\ rels_path \notin namelist => arg.part = [outcome |-> "parsed", rels |-> <<>>]
    /\ file_index = 0
    /\ results = <<>>
    /\ has_errors = FALSE
    /\ exit_code = -1
    /\ request = <<>>

CheckRelationshipsPart ==
    /\ pc = "rels_part"
    /\ \E types \in Orders(broken_types(arg.part.rels)) :
         LET s == check_relationships(Self, zip_file, namelist, arg.part.outcome,
                                      arg.part.rels, types)
         IN  issues' = s.issues /\ stats' = s.stats
    /\ pc' = "rels_checked"
    /\ UNCHANGED <<zip_file, namelist, passed, stdout, anomalies, driver>>

RelsNext == CheckRelationshipsPart

RelsSpec == RelsInit /\ [][RelsNext]_vars

----------------------------------------------------------------------------
(* _check_embedded_objects on its own: one call on an open archive.        *)

EmbeddedInit ==
    /\ pc = "embedded"
    /\ issues = <<>>
    /\ stats = <<>>
    /\ zip_file = "open"
    /\ namelist \in SUBSET EmbeddedNames
    /\ passed = "unset"
    /\ stdout = <<>>
    /\ anomalies = 0
    /\ arg = [op |-> "check_embedded_objects", verbose |-> FALSE]
    /\ file_index = 0
    /\ results = <<>>
    /\ has_errors = FALSE
    /\ exit_code = -1
    /\ request = <<>>

EmbeddedNext == CheckEmbeddedObjects

EmbeddedSpec == EmbeddedInit /\ [][EmbeddedNext]_vars

----------------------------------------------------------------------------
(* _check_relationships on entries with their Target written out: a text   *)
(* is a sequence of characters.  What the loop of lines 648-675 reads of   *)
(* one entry is computed from its Target and the names of the archive, and *)
(* the check goes on as above.                                             *)

\* path in self.zip_file.namelist()
in_namelist(path, names) == \E f \in names : NameChars[f] = path

\* target.lstrip(chars): every leading character that is one of chars goes
RECURSIVE lstrip(_, _)
lstrip(target, chars) ==
    IF target # <<>> /\ Head(target) \in chars THEN lstrip(Tail(target), chars)
    ELSE target

\* path.split(sep)
RECURSIVE split(_, _)
split(path, sep) ==
    IF \E k \in DOMAIN path : path[k] = sep
    THEN LET k == CHOOSE n \in DOMAIN path :
                      path[n] = sep /\ \A m \in 1..(n - 1) : path[m] # sep
         IN  <<SubSeq(path, 1, k - 1)>> \o split(SubSeq(path, k + 1, Len(path)), sep)
    ELSE <<path>>

\* sep.join(comps)
RECURSIVE join(_, _)
join(comps, sep) ==
    IF comps = <<>> THEN <<>>
    ELSE IF Len(comps) = 1 THEN comps[1]
    ELSE comps[1] \o <<sep>> \o join(Tail(comps), sep)

\* the loop of posixpath.normpath over the components
RECURSIVE new_comps(_, _, _)
new_comps(comps, initial_slashes, acc) ==
    IF comps = <<>> THEN acc
    ELSE LET comp == Head(comps)
             dotdot == <<".", ".">>
         IN  new_comps(Tail(comps), initial_slashes,
                 IF comp = <<>> \/ comp = <<".">> THEN acc
                 ELSE IF \/ comp # dotdot
                         \/ (initial_slashes = 0 /\ acc = <<>>)
                         \/ (acc # <<>> /\ acc[Len(acc)] = dotdot)
                 THEN Append(acc, comp)
                 ELSE IF acc # <<>> THEN SubSeq(acc, 1, Len(acc) - 1)
                 ELSE acc)

\* os.path.normpath(path), on a system whose os.path is posixpath
normpath(path) ==
    IF path = <<>> THEN <<".">>
    ELSE LET initial_slashes ==
                 IF path[1] # "/" THEN 0
                 ELSE IF startswith(path, <<"/", "/">>) /\ ~startswith(path, <<"/", "/", "/">>)
                 THEN 2 ELSE 1
             joined == join(new_comps(split(path, "/"), initial_slashes, <<>>), "/")
             normal == [i \in 1..initial_slashes |-> "/"] \o joined
         IN  IF normal = <<>> THEN <<".">> ELSE normal

\* path.replace('\\', '/')
replace_backslash(path) == [i \in DOMAIN path |-> IF path[i] = "\\" THEN "/" ELSE path[i]]

\* lines 657-663
target_path(target) ==
    replace_backslash(normpath(
        IF startswith(target, <<"/">>) THEN Tail(target)
        ELSE <<"w", "o", "r", "d", "/">> \o target))

\* line 667
alt_path(target) == lstrip(target, {".", "/"})

\* what the loop reads of the entry rel in an archive of these names
read_entry(rel, names) ==
    [TargetMode |-> rel.TargetMode,
     http |-> startswith(rel.Target, <<"h", "t", "t", "p">>),
     found |-> \/ in_namelist(target_path(rel.Target), names)
               \/ in_namelist(alt_path(rel.Target), names),
     Type |-> rel.Type]

\* what comes before the name of a part in a Target
TargetPrefixes ==
    {<<>>,
     <<".", "/">>,
     <<".", ".", "/">>,
     <<".", ".", "/", ".", ".", "/">>,
     <<"/">>,
     <<"/", "/">>,
     <<"/", "w", "o", "r", "d", "/">>,
     <<".">>,
     <<"m", "e", "d", "i", "a", "\\", ".", ".", "/">>,
     <<"h", "t", "t", "p", ":", "/", "/">>,
     <<"h", "t", "t", "p", "s", ":", "/", "/">>,
     <<"m", "a", "i", "l", "t", "o", ":">>,
     <<"f", "t", "p", ":", "/", "/">>,
     <<"f", "i", "l", "e", ":", "/", "/", "/">>,
     <<"H", "T", "T", "P", ":", "/", "/">>}

\* the names
TargetBodies ==
    {<<"m", "e", "d", "i", "a", "/", "a", ".", "p", "n", "g">>,
     <<"h", "t", "t", "p", "d", ".", "x", "m", "l">>}

TargetEntries ==
    {[Target |-> a \o b, TargetMode |-> m, Type |-> t] :
        a \in TargetPrefixes, b \in TargetBodies, m \in {"", "External"},
        t \in {RelTypes[k] : k \in DOMAIN RelTypes}}

TargetInit ==
    /\ pc = "rels_part"
    /\ issues = <<>>
    /\ stats = <<>>
    /\ zip_file = "open"
    /\ namelist \in {{rels_path} \cup S : S \in SUBSET TargetParts}
    /\ passed = "unset"
    /\ stdout = <<>>
    /\ anomalies = 0
    /\ arg \in {[op |-> "check_relationships", verbose |-> FALSE,
                 part |-> [outcome |-> "parsed", rels |-> <<e>>]] : e \in TargetEntries}
    /\ file_index = 0
    /\ results = <<>>
    /\ has_errors = FALSE
    /\ exit_code = -1
    /\ request = <<>>

CheckRelationshipTargets ==
    /\ pc = "rels_part"
    /\ LET rels == [i \in DOMAIN arg.part.rels |-> read_entry(arg.part.rels[i], namelist)]
       IN  \E types \in Orders(broken_types(rels)) :
             LET s == check_relationships(Self, zip_file, namelist, arg.part.outcome,
                                          rels, types)
             IN  issues' = s.issues /\ stats' = s.stats
    /\ pc' = "rels_checked"
    /\ UNCHANGED <<zip_file, namelist, passed, stdout, anomalies, driver>>

TargetNext == CheckRelationshipTargets

TargetSpec == TargetInit /\ [][TargetNext]_vars

----------------------------------------------------------------------------
(* The analysis run again on the same bytes: each run is one interpreter   *)
(* process that builds a DocxDiagnostic for the file, calls run_all_checks *)
(* and get_summary; results collects the summary of each run.  The file is *)
(* a package with every standard part; what varies is the fields of        *)
(* word/document.xml and the entries of its relationships part.            *)

\* the file is analysed this many times
Runs == 2

RepeatInit ==
    /\ pc = "idle"
    /\ issues = <<>>
    /\ stats = <<>>
    /\ zip_file = "None"
    /\ namelist = {}
    /\ passed = "unset"
    /\ stdout = <<>>
    /\ anomalies = 0
    /\ arg \in {[op |-> "run_all_checks", verbose |-> FALSE,
                 content |-> [decode_error |-> -1, text |-> <<>>, wellformed |-> TRUE,
                              root |-> t],
                 rels |-> r] : t \in FieldTrees, r \in RelLists(MaxRels)}
    /\ file_index = 0
    /\ results = <<>>
    /\ has_errors = FALSE
    /\ exit_code = -1
    /\ request = <<>>

\* run_all_checks lines 176-197 on the file, then get_summary
RunInNewProcess ==
    /\ pc = "idle"
    /\ Len(results) < Runs
    /\ \E unique_types \in Orders(field_type_set(arg.content.root)),
          types \in Orders(broken_types(arg.rels)) :
         LET fresh == [issues |-> <<>>, stats |-> <<>>]
             s1 == check_file_exists(fresh, TRUE, TRUE, SizeLimit).self
             s2 == check_zip_structure(s1, "ok", StandardParts).self
             s3 == check_required_files(s2, "open", StandardParts)
             s4 == analyze_document_xml(s3, "open", StandardParts, arg.content, 0,
                                        unique_types)
             s5 == check_relationships(s4, "open", StandardParts, "parsed", arg.rels, types)
             s6 == check_embedded_objects(s5, "open", StandardParts)
         IN  /\ issues' = s6.issues
             /\ stats' = s6.stats
             /\ results' = Append(results, summary_of(s6))
             /\ passed' = IF count_in(s6, ERROR) = 0 THEN "True" ELSE "False"
    /\ zip_file' = "closed"
    /\ namelist' = StandardParts
    /\ stdout' = Append(stdout, "Analyzing")
    /\ UNCHANGED <<pc, anomalies, arg, file_index, has_errors, exit_code, request>>

RepeatNext == RunInNewProcess

RepeatSpec == RepeatInit /\ [][RepeatNext]_vars

----------------------------------------------------------------------------
(* main: the batch driver.  arg is the command line: files, the           *)
(* positional arguments, and json, whether --json was given.  What an      *)
(* argument is, a path (no wildcard) or a pattern (holds * or ?) that      *)
(* matches no file or one, is read when the loop comes to it; a pattern    *)
(* that matches more files behaves as that many paths.                     *)
(* Between ParseArgs and Finish the run of each file is the run of Spec.   *)

ArgLists == {[i \in 1..n |-> "file"] : n \in 0..MaxFiles}

MainInit ==
    /\ pc = "main"
    /\ issues = <<>>
    /\ stats = <<>>
    /\ zip_file = "None"
    /\ namelist = {}
    /\ passed = "unset"
    /\ stdout = <<>>
    /\ anomalies = 0
    /\ arg \in {[op |-> "main", verbose |-> FALSE, files |-> f, json |-> j] :
                    f \in ArgLists, j \in BOOLEAN}
    /\ file_index = 0
    /\ results = <<>>
    /\ has_errors = FALSE
    /\ exit_code = -1
    /\ request = <<>>

\* parser.parse_args(): files is nargs='+', so an empty list ends the
\* process with parser.error, which is sys.exit(2)
ParseArgs ==
    /\ pc = "main"
    /\ IF arg.files = <<>>
          THEN pc' = "exited" /\ exit_code' = 2 /\ file_index' = file_index
          ELSE pc' = "loop" /\ exit_code' = exit_code /\ file_index' = 1
    /\ results' = <<>>
    /\ has_errors' = FALSE
    /\ UNCHANGED <<issues, stats, zip_file, namelist, passed, stdout, anomalies, arg,
                   request>>

\* lines 866-872: a pattern that matches nothing is reported on stderr and
\* skipped
SkipPattern ==
    /\ pc = "loop"
    /\ file_index <= Len(arg.files)
    /\ file_index' = file_index + 1
    /\ UNCHANGED <<pc, issues, stats, zip_file, namelist, passed, stdout, anomalies,
                   arg, results, has_errors, exit_code, request>>

\* line 879: DocxDiagnostic(file, verbose=args.verbose), for a path or for
\* the file a pattern matches
StartFile ==
    /\ pc = "loop"
    /\ file_index <= Len(arg.files)
    /\ issues' = <<>>
    /\ stats' = <<>>
    /\ zip_file' = "None"
    /\ namelist' = {}
    /\ passed' = "unset"
    /\ pc' = "start"
    /\ UNCHANGED <<stdout, anomalies, driver>>

\* has_errors that keeps the outcome of the last file only
update_has_errors_last(errors, returned) == returned = "False"

\* if not passed: has_errors = True
update_has_errors(errors, returned) == errors \/ returned = "False"

\* what print_report prints, by its Status line
print_report == "Status: " \o get_summary.status

\* lines 880-888, after run_all_checks has returned
CollectResult ==
    /\ arg.op = "main"
    /\ pc = "returned"
    /\ has_errors' = update_has_errors(has_errors, passed)
    /\ IF arg.json
          THEN results' = Append(results, get_summary) /\ stdout' = stdout
          ELSE results' = results /\ stdout' = Append(stdout, print_report)
    /\ file_index' = file_index + 1
    /\ pc' = "loop"
    /\ UNCHANGED <<issues, stats, zip_file, namelist, passed, anomalies, arg, exit_code,
                   request>>

\* lines 891-894: results[0] raises IndexError when no file was analysed
Finish ==
    /\ pc = "loop"
    /\ file_index > Len(arg.files)
    /\ IF arg.json /\ results = <<>>
          THEN pc' = "raised" /\ stdout' = stdout /\ exit_code' = exit_code
          ELSE /\ stdout' = IF arg.json THEN Append(stdout, "JSON") ELSE stdout
               /\ exit_code' = IF has_errors THEN 1 ELSE 0
               /\ pc' = "exited"
    /\ UNCHANGED <<issues, stats, zip_file, namelist, passed, anomalies, arg,
                   file_index, results, has_errors, request>>

MainNext ==
    \/ ParseArgs
    \/ SkipPattern
    \/ StartFile
    \/ CollectResult
    \/ Finish
    \/ Next

MainSpec == MainInit /\ [][MainNext]_vars

----------------------------------------------------------------------------
(* api_diagnostic.py, main.  arg is the command line and the files it      *)
(* names:                                                                  *)
(*   url, ids        whether --url and --ids (with an id in it) were given *)
(*   docx            "none": no --docx; "empty", "ids": the file holds no  *)
(*                   lookup id, or some                                    *)
(*   extract_only    --extract-only                                        *)
(*   timeout_given, timeout   whether --timeout was given, and its value   *)
(*   config          "none": no --config; "unreadable": open or json.load  *)
(*                   raises; "ok": it loads, and file is what it holds:    *)
(*                   whether it has apiUrl, lookupIds and timeout, and the *)
(*                   timeout                                               *)

\* parser.add_argument('--timeout', type=int, default=30)
DefaultTimeout == 30

\* the timeouts of the model, in seconds
Timeouts == {0, 5, DefaultTimeout}

NoFile == [apiUrl |-> FALSE, lookupIds |-> FALSE, has_timeout |-> FALSE, timeout |-> 0]

ConfigFiles ==
    {f \in [apiUrl : BOOLEAN, lookupIds : BOOLEAN, has_timeout : BOOLEAN,
            timeout : Timeouts] : ~f.has_timeout => f.timeout = 0}

ApiArgs ==
    {a \in [op : {"api_main"}, verbose : {FALSE}, url : BOOLEAN, ids : BOOLEAN,
            docx : {"none", "empty", "ids"}, extract_only : BOOLEAN,
            timeout_given : BOOLEAN, timeout : Timeouts,
            config : {"none", "unreadable", "ok"}, file : ConfigFiles] :
        /\ ~a.timeout_given => a.timeout = 0
        /\ a.config # "ok" => a.file = NoFile}

ApiInit ==
    /\ pc = "api_main"
    /\ issues = <<>>
    /\ stats = <<>>
    /\ zip_file = "None"
    /\ namelist = {}
    /\ passed = "unset"
    /\ stdout = <<>>
    /\ anomalies = 0
    /\ arg \in ApiArgs
    /\ file_index = 0
    /\ results = <<>>
    /\ has_errors = FALSE
    /\ exit_code = -1
    /\ request = <<>>

\* args.timeout after parser.parse_args()
args_timeout == IF arg.timeout_given THEN arg.timeout ELSE DefaultTimeout

\* config.get('timeout', 30): config is {} unless the file was loaded
config_get_timeout ==
    IF arg.config = "ok" /\ arg.file.has_timeout THEN arg.file.timeout ELSE DefaultTimeout

\* a or b, for numbers: a unless it is 0
or(a, b) == IF a # 0 THEN a ELSE b

\* lines 429-437
ApiLoadConfig ==
    /\ pc = "api_main"
    /\ IF arg.config = "unreadable"
          THEN pc' = "exited" /\ exit_code' = 2
          ELSE pc' = "api_validate" /\ exit_code' = exit_code
    /\ UNCHANGED <<issues, stats, zip_file, namelist, passed, stdout, anomalies,
                   arg, file_index, results, has_errors, request>>

\* lines 439-519: the API URL, the lookup ids, --extract-only
ApiValidate ==
    /\ pc = "api_validate"
    /\ LET api_url == arg.url \/ arg.file.apiUrl
           lookup_ids == arg.ids \/ arg.file.lookupIds \/ arg.docx = "ids"
       IN  IF arg.docx # "none" /\ arg.extract_only
           THEN pc' = "exited" /\ exit_code' = 0
           ELSE IF ~api_url \/ ~lookup_ids
           THEN pc' = "exited" /\ exit_code' = 2
           ELSE pc' = "api_request" /\ exit_code' = exit_code
    /\ UNCHANGED <<issues, stats, zip_file, namelist, passed, stdout, anomalies,
                   arg, file_index, results, has_errors, request>>

\* lines 525-546: success is result['success']
ApiRequest ==
    /\ pc = "api_request"
    /\ request' = [timeout |-> or(args_timeout, config_get_timeout)]
    /\ \E success \in BOOLEAN : exit_code' = IF success THEN 0 ELSE 1
    /\ pc' = "exited"
    /\ UNCHANGED <<issues, stats, zip_file, namelist, passed, stdout, anomalies,
                   arg, file_index, results, has_errors>>

ApiNext == ApiLoadConfig \/ ApiValidate \/ ApiRequest

ApiSpec == ApiInit /\ [][ApiNext]_vars

----------------------------------------------------------------------------
(* What a state shows of the run so far *)

HasIssue(category) == \E i \in DOMAIN issues : issues[i].category = category

HasSeverity(sev) == \E i \in DOMAIN issues : issues[i].severity = sev

IssuesOf(category, sev) ==
    {i \in DOMAIN issues : issues[i].category = category /\ issues[i].severity = sev}

SemanticStatKeys ==
    {"tracked_changes", "smart_tags", "content_controls", "field_codes",
     "equations", "hyperlinks"}

SemanticCategories ==
    {"Tracked Changes", "Nested Revisions", "Smart Tags", "Content Controls",
     "Field Codes", "Equations", "Hyperlinks", "Custom Namespaces"}

\* some element-specific check has run
SemanticRan ==
    \/ SemanticStatKeys \cap DOMAIN stats # {}
    \/ \E i \in DOMAIN issues : issues[i].category \in SemanticCategories

\* _analyze_document_xml has run
AnalysisRan ==
    \/ \E i \in DOMAIN issues : issues[i].message = "document.xml not found in archive"
    \/ HasIssue("XML Parsing")
    \/ HasIssue("Analysis")
    \/ "hyperlinks" \in DOMAIN stats

\* _check_relationships has run
RelsRan == "relationships" \in DOMAIN stats \/ HasIssue("Relationships")

\* _check_embedded_objects has run to its end
EmbeddedRan == "embedded_objects" \in DOMAIN stats

\* run_all_checks returned at Check 1 or Check 2
LoaderFailed == pc = "returned" /\ "zip_files" \notin DOMAIN stats

\* the sum of a sequence of numbers
RECURSIVE SumOf(_)
SumOf(q) == IF q = <<>> THEN 0 ELSE Head(q) + SumOf(Tail(q))

MissingRequired == {REQUIRED_FILES[i] : i \in 1..Len(REQUIRED_FILES)} \ namelist

MissingOptional == {optional_files[i] : i \in 1..Len(optional_files)} \ namelist

----------------------------------------------------------------------------
(* C1: the status of every report get_summary produces is FAIL exactly when *)
(* some issue is an ERROR, WARN exactly when no issue is an ERROR and some  *)
(* issue is a WARNING, and PASS otherwise.                                  *)
C1_StatusDerivedFromIssues ==
    LET status == get_summary.status
    IN  /\ status = "FAIL" <=> HasSeverity(ERROR)
        /\ status = "WARN" <=> (~HasSeverity(ERROR) /\ HasSeverity(WARNING))
        /\ status = "PASS" <=> (~HasSeverity(ERROR) /\ ~HasSeverity(WARNING))

C1_Witness ==
    /\ pc = "returned"
    /\ get_summary.status = "WARN"
    /\ HasSeverity(INFO)

(* C2: whenever run_all_checks has ended, by returning or by an exception,  *)
(* the zip handle _check_zip_structure opened is closed.                    *)
C2_HandleClosedOnEveryExit ==
    pc \in {"returned", "raised"} => zip_file # "open"

(* C3: no exception leaves run_all_checks: a run never ends by raising.     *)
C3_NoExceptionEscapes == pc # "raised"

(* C4: when an exception inside an element-specific check was recorded as   *)
(* an Analysis ERROR, every other element-specific check has run: at most   *)
(* the statistic of the failing check is missing.                           *)
C4_SemanticChecksIsolated ==
    HasIssue("Analysis") =>
        /\ Cardinality(IssuesOf("Analysis", ERROR)) = 1
        /\ Cardinality(SemanticStatKeys \ DOMAIN stats) <= 1

(* C5: an exception raised inside the relationship check or inside the     *)
(* embedded-object check is caught there: once the relationship check has  *)
(* been reached, the run does not end by raising.                          *)
C5_LateChecksCatchErrors ==
    ~(pc = "raised" /\ RelsRan)

(* C6: when the loader fails, the report holds exactly one ERROR, of        *)
(* category File Access or ZIP Structure, as its last issue; no later check *)
(* has run (no other statistic, no issue but a File Size warning before    *)
(* it); run_all_checks returned False and the status is FAIL.              *)
C6_LoaderFailureAborts ==
    LoaderFailed =>
        /\ Cardinality({i \in DOMAIN issues : issues[i].severity = ERROR}) = 1
        /\ issues[Len(issues)].severity = ERROR
        /\ issues[Len(issues)].category \in {"File Access", "ZIP Structure"}
        /\ \A i \in 1..(Len(issues) - 1) : issues[i].category = "File Size"
        /\ DOMAIN stats \subseteq {"file_size", "file_size_mb"}
        /\ passed = "False"
        /\ get_summary.status = "FAIL"

C6_Witness ==
    /\ LoaderFailed
    /\ zip_file = "open"
    /\ HasIssue("ZIP Structure")
    /\ HasIssue("File Size")

(* C7 as claimed: after an XML Parsing error nothing else happens in the   *)
(* run: it is the last issue, and neither the relationship check nor the   *)
(* embedded-object check runs.                                             *)
C7_ParseFailureAbortsPipeline ==
    HasIssue("XML Parsing") =>
        /\ issues[Len(issues)].category = "XML Parsing"
        /\ ~RelsRan
        /\ ~EmbeddedRan

(* C7 as amended: a failure to parse word/document.xml records exactly one *)
(* XML Parsing ERROR and skips the element-specific checks only (none of   *)
(* their statistics or issues exists); the run goes on to the relationship *)
(* check and the embedded-object check, and returns False.                 *)
C7_ParseFailureSkipsSemanticChecksOnly ==
    HasIssue("XML Parsing") =>
        /\ Cardinality(IssuesOf("XML Parsing", ERROR)) = 1
        /\ ~SemanticRan
        /\ ~HasIssue("Analysis")
        /\ pc \in {"rels", "embedded", "close", "returned", "raised"}
        /\ pc \in {"embedded", "close", "returned", "raised"} => RelsRan
        /\ pc \in {"close", "returned"} => EmbeddedRan
        /\ pc = "returned" => passed = "False"

C7_Witness ==
    /\ HasIssue("XML Parsing")
    /\ pc = "returned"
    /\ issues[Len(issues)].category = "Media Files"
    /\ HasIssue("Broken References")

(* C8 as claimed: after a Missing required file ERROR, document analysis,  *)
(* the relationship check and the embedded-object check do not run.        *)
C8_MissingRequiredAbortsPipeline ==
    (\E i \in DOMAIN issues : issues[i].message = "Missing required file") =>
        /\ ~AnalysisRan
        /\ ~RelsRan
        /\ ~EmbeddedRan

(* C8 as amended: a missing mandatory part does not abort the pipeline:    *)
(* after the Missing required file ERRORs the run goes on to document      *)
(* analysis, the relationship check and the embedded-object check, and a   *)
(* run that returns has run all three and returns False.                   *)
C8_MissingRequiredDoesNotAbort ==
    (\E i \in DOMAIN issues : issues[i].message = "Missing required file") =>
        /\ pc \in {"analyze", "rels", "embedded", "close", "returned", "raised"}
        /\ pc \in {"rels", "embedded", "close", "returned"} => AnalysisRan
        /\ pc \in {"embedded", "close", "returned"} => RelsRan
        /\ pc \in {"close", "returned"} => EmbeddedRan
        /\ pc = "returned" => passed = "False" /\ zip_file = "closed"

C8_Witness ==
    /\ \E i \in DOMAIN issues : issues[i].message = "Missing required file"
    /\ pc = "returned"
    /\ "tracked_changes" \in DOMAIN stats
    /\ HasIssue("Tracked Changes")
    /\ RelsRan

(* C9: a completed run holds exactly one DOCX Structure ERROR per missing  *)
(* mandatory part and exactly one DOCX Structure INFO per missing optional *)
(* part.                                                                   *)
C9_OneIssuePerMissingPart ==
    (pc = "returned" /\ ~LoaderFailed) =>
        /\ \A f \in MissingRequired :
              Cardinality({i \in IssuesOf("DOCX Structure", ERROR) :
                              issues[i].names = <<f>>}) = 1
        /\ Cardinality(IssuesOf("DOCX Structure", ERROR)) = Cardinality(MissingRequired)
        /\ Cardinality(IssuesOf("DOCX Structure", INFO)) = Cardinality(MissingOptional)

(* C10: when word/document.xml does not decode, an Encoding ERROR with the *)
(* byte offset is recorded and the part is not analysed further: no XML    *)
(* Parsing issue, and no issue or statistic of an element-specific check.  *)
C10_DecodeFailureStopsAnalysis ==
    HasIssue("Encoding") =>
        /\ Cardinality(IssuesOf("Encoding", ERROR)) = 1
        /\ \A i \in IssuesOf("Encoding", ERROR) : Len(issues[i].nums) = 1
        /\ ~HasIssue("XML Parsing")
        /\ ~SemanticRan

\* the code points of the five ranges, written out
C11_FlaggedCodePoints ==
    (0..8) \cup (11..12) \cup (14..31) \cup {127} \cup (65534..65535)

\* the hex code of each code point of Alphabet that lies in them
C11_HexOf ==
    (0 :> "0x0") @@ (8 :> "0x8") @@ (11 :> "0xb") @@ (12 :> "0xc") @@ (14 :> "0xe")
    @@ (31 :> "0x1f") @@ (127 :> "0x7f") @@ (65534 :> "0xfffe") @@ (65535 :> "0xffff")

\* the Invalid Character Detail issues, in the order they were added
C11_Details == SelectSeq(issues, LAMBDA x : x.category = "Invalid Character Detail")

(* C11: the scan records an occurrence for position i exactly when the     *)
(* code point at i lies in [0x00,0x08], [0x0B,0x0C], [0x0E,0x1F], [0x7F]   *)
(* or [0xFFFE,0xFFFF]; the occurrence carries the hex code of the code     *)
(* point, the offset i and the line number (line feeds before i, plus      *)
(* one); occurrences are in ascending offset order.  The occurrences are   *)
(* read from the Invalid Character Detail issues of a verbose call, which  *)
(* show the first DetailLimit of them, and their number from the Invalid   *)
(* Characters issue.                                                       *)
C11_ScanFlagsExactlyTheRanges ==
    (pc = "scanned" /\ arg.content.decode_error < 0) =>
        LET text == arg.content.text
            flagged == {i \in 0..(Len(text) - 1) : text[i + 1] \in C11_FlaggedCodePoints}
            d == C11_Details
        IN  /\ flagged = {} <=> ~HasIssue("Invalid Characters")
            /\ \A x \in IssuesOf("Invalid Characters", ERROR) :
                  issues[x].nums[1] = Cardinality(flagged)
            /\ arg.verbose =>
                  /\ Len(d) = IF Cardinality(flagged) < DetailLimit
                              THEN Cardinality(flagged) ELSE DetailLimit
                  /\ \A k \in DOMAIN d :
                        LET i == d[k].nums[2]
                        IN  /\ i \in flagged
                            /\ Cardinality({j \in flagged : j < i}) = k - 1
                            /\ d[k].names = <<C11_HexOf[text[i + 1]]>>
                            /\ d[k].nums[1] =
                                  Cardinality({j \in 0..(i - 1) : text[j + 1] = 10}) + 1

C11_Witness ==
    /\ pc = "scanned"
    /\ arg.content.text = <<10, 10, 10, 11>>
    /\ \E k \in DOMAIN C11_Details :
          /\ C11_Details[k].names = <<"0xb">>
          /\ C11_Details[k].nums = <<4, 3>>

\* the number of w:ins and of w:del elements in each kind of element
C12_InsertionsIn(kind) ==
    IF kind \in {"ins", "insdel", "insrdel", "delins"} THEN 1
    ELSE IF kind = "insinsdel" THEN 2 ELSE 0

C12_DeletionsIn(kind) ==
    IF kind \in {"del", "insdel", "insrdel", "insinsdel", "delins"} THEN 1 ELSE 0

(* C12: for a tree with N insertion and M deletion elements and no        *)
(* property-change element, the tracked-changes check sets                 *)
(* stats.tracked_changes.total to N + M, and the Tracked Changes issue it  *)
(* adds (one, when N + M > 0) is a WARNING exactly when N + M < 100 and an *)
(* ERROR otherwise.                                                        *)
C12_TrackedChangesTotalAndSeverity ==
    LET root == arg.root
        N == SumOf([i \in DOMAIN root |-> C12_InsertionsIn(root[i])])
        M == SumOf([i \in DOMAIN root |-> C12_DeletionsIn(root[i])])
        property_changes ==
            Cardinality({i \in DOMAIN root : root[i] \in {"pPrChange", "rPrChange"}})
        tc == {i \in DOMAIN issues : issues[i].category = "Tracked Changes"}
    IN  (pc = "tracked_changes" /\ property_changes = 0) =>
            /\ stats["tracked_changes"].total = N + M
            /\ Cardinality(tc) = IF N + M > 0 THEN 1 ELSE 0
            /\ \A i \in tc :
                  /\ issues[i].severity = WARNING <=> N + M < 100
                  /\ issues[i].severity = ERROR <=> N + M >= 100

C12_Witness ==
    /\ pc = "tracked_changes"
    /\ Len(arg.root) = 100
    /\ \A i \in DOMAIN arg.root : arg.root[i] \in {"ins", "del"}
    /\ stats["tracked_changes"].total = 100
    /\ IssuesOf("Tracked Changes", ERROR) # {}

C15_RepeatedRunsAgree ==
    \A i, j \in DOMAIN results : results[i] = results[j]

\* the report of some analysed file has status FAIL
C16_SomeFileFailed ==
    \/ \E i \in DOMAIN results : results[i].status = "FAIL"
    \/ \E i \in DOMAIN stdout : stdout[i] = "Status: FAIL"

C17_ExitCodeFollowsTable ==
    (pc = "exited" /\ arg.files # <<>> /\ arg.json) =>
        LET not_found ==
                \E i \in DOMAIN results : \E k \in DOMAIN results[i].issues :
                    results[i].issues[k].message = "File not found"
            any_errors == \E i \in DOMAIN results : results[i].errors > 0
        IN  exit_code = IF not_found THEN 2 ELSE IF any_errors THEN 1 ELSE 0

(* C18: with --json nothing but the JSON document is written to standard   *)
(* output: run_all_checks prints nothing.                                  *)
C18_OnlyJsonOnStdout ==
    arg.json => \A i \in DOMAIN stdout : stdout[i] = "JSON"

\* the first and the last place the issues of a category take among the
\* fourteen groups
C19_Group ==
    [c \in {"File Access", "File Size", "ZIP Structure"} |-> <<1, 1>>]
    @@ ("DOCX Structure" :> <<2, 3>>)
    @@ [c \in {"Encoding", "Invalid Characters", "Invalid Character Detail"} |-> <<3, 3>>]
    @@ ("XML Parsing" :> <<4, 4>>)
    @@ ("Analysis" :> <<5, 11>>)
    @@ [c \in {"Tracked Changes", "Nested Revisions"} |-> <<5, 5>>]
    @@ ("Smart Tags" :> <<6, 6>>)
    @@ ("Content Controls" :> <<7, 7>>)
    @@ ("Field Codes" :> <<8, 8>>)
    @@ ("Equations" :> <<9, 9>>)
    @@ ("Hyperlinks" :> <<10, 10>>)
    @@ ("Custom Namespaces" :> <<11, 11>>)
    @@ [c \in {"Relationships", "Broken References", "External References"} |-> <<12, 12>>]
    @@ ("Embedded Objects" :> <<13, 13>>)
    @@ ("Media Files" :> <<14, 14>>)

\* no issue of a later group comes before an issue of an earlier one
C19_InGroupOrder ==
    \A i, j \in DOMAIN issues :
        i < j => C19_Group[issues[i].category][1] <= C19_Group[issues[j].category][2]

(* C19: within one run every step leaves the issues recorded so far as an  *)
(* unchanged prefix of the list, and the groups of issues are in the order *)
(* loader, structural validator, scan of the text, XML parse, tracked      *)
(* changes, smart tags, content controls, field codes, equations,          *)
(* hyperlinks, namespaces, relationships, embedded objects, media.  The    *)
(* issues _analyze_document_xml adds for its own failures (part not in the *)
(* archive, exception in a check) lie anywhere between the structural      *)
(* validator's and the relationship check's.                               *)
C19_AppendOnlyInDiscoveryOrder ==
    /\ []C19_InGroupOrder
    /\ [][/\ Len(issues') >= Len(issues)
          /\ SubSeq(issues', 1, Len(issues)) = issues]_vars

C19_Witness ==
    /\ pc = "returned"
    /\ Len(issues) = 3
    /\ issues[1].category = "File Size"
    /\ issues[2].category = "Tracked Changes"
    /\ issues[3].category = "Media Files"

(* C20: the loader tests existence, then that the path is a file, then the *)
(* size (read once both hold) against 0, then against 100 MiB, and only    *)
(* then the zip; a file above 100 MiB gets exactly one File Size WARNING,  *)
(* before any other issue, and the run goes on through the zip check and   *)
(* the checks after it, where the warning alone neither ends the run nor   *)
(* makes the status FAIL; a file of exactly 100 MiB gets no such warning.  *)
C20_LoaderOrderAndSizeWarning ==
    LET sized == "file_size" \in DOMAIN stats
        zipped == zip_file # "None" \/ HasIssue("ZIP Structure")
    IN  /\ \A i \in DOMAIN issues :
              issues[i].message \in {"File not found", "Path is not a file"} =>
                  ~sized /\ ~zipped /\ Len(issues) = 1
        /\ \A i \in DOMAIN issues :
              issues[i].message = "File is empty (0 bytes)" =>
                  sized /\ stats["file_size"] = 0 /\ ~zipped /\ Len(issues) = 1
        /\ zipped => sized /\ stats["file_size"] > 0
        /\ (sized /\ pc # "start") =>
              /\ stats["file_size"] > 100 * 1024 * 1024 =>
                    /\ issues[1].category = "File Size"
                    /\ issues[1].severity = WARNING
                    /\ Cardinality({i \in DOMAIN issues :
                                       issues[i].category = "File Size"}) = 1
                    /\ pc # "returned" \/ zipped
                    /\ ~HasSeverity(ERROR) =>
                          /\ get_summary.status # "FAIL"
                          /\ pc = "returned" => passed = "True" /\ EmbeddedRan
              /\ stats["file_size"] <= 100 * 1024 * 1024 => ~HasIssue("File Size")

C20_Witness ==
    /\ pc = "returned"
    /\ "file_size" \in DOMAIN stats
    /\ stats["file_size"] = 100 * 1024 * 1024 + 1
    /\ Len(issues) = 1
    /\ issues[1].category = "File Size"
    /\ passed = "True"
    /\ get_summary.status = "WARN"

\* the 20 code points before offset i and the 20 from i on, as far as the
\* text goes, with line feed and carriage return written as \n and \r
C21_ContextAt(text, i) ==
    LET first == IF i - 20 > 0 THEN i - 20 ELSE 0
        last == IF i + 20 < Len(text) THEN i + 20 ELSE Len(text)
    IN  escape_newlines([k \in 1..(last - first) |-> text[first + k]])

(* C21: when the scan of a text finds n >= 1 invalid characters it adds    *)
(* exactly one Invalid Characters ERROR, first; the issue names each        *)
(* distinct hex code once with the number of its occurrences, the numbers  *)
(* summing to n, and its context is that of the occurrence at the lowest   *)
(* offset.  A verbose call then adds min(n, 5) Invalid Character Detail    *)
(* INFO issues, the k-th for the k-th occurrence in offset order with that *)
(* occurrence's context, and nothing else; a call that is not verbose adds *)
(* no detail.  When n = 0 the scan adds no issue.                          *)
C21_OneAggregateThenDetails ==
    (pc = "scanned" /\ arg.content.decode_error < 0) =>
        LET text == arg.content.text
            flagged == {i \in 0..(Len(text) - 1) : text[i + 1] \in C11_FlaggedCodePoints}
            n == Cardinality(flagged)
            nth(k) == CHOOSE i \in flagged : Cardinality({j \in flagged : j < i}) = k - 1
            codes == {C11_HexOf[text[i + 1]] : i \in flagged}
            shown == IF n < 5 THEN n ELSE 5
        IN  IF n = 0 THEN issues = <<>>
            ELSE /\ Len(issues) = 1 + (IF arg.verbose THEN shown ELSE 0)
                 /\ LET a == issues[1]
                        keys == Tail(a.names)
                        counts == Tail(a.nums)
                    IN  /\ a.category = "Invalid Characters"
                        /\ a.severity = ERROR
                        /\ a.nums[1] = n
                        /\ Len(keys) = Cardinality(codes)
                        /\ {keys[k] : k \in DOMAIN keys} = codes
                        /\ Len(counts) = Len(keys)
                        /\ \A k \in DOMAIN keys :
                              counts[k] = Cardinality({i \in flagged :
                                              C11_HexOf[text[i + 1]] = keys[k]})
                        /\ SumOf(counts) = n
                        /\ a.context = C21_ContextAt(text, nth(1))
                 /\ \A k \in 2..Len(issues) :
                        /\ issues[k].category = "Invalid Character Detail"
                        /\ issues[k].severity = INFO
                        /\ issues[k].nums[2] = nth(k - 1)
                        /\ issues[k].context = C21_ContextAt(text, nth(k - 1))

C21_Witness ==
    /\ pc = "scanned"
    /\ arg.verbose
    /\ arg.content.text = <<12, 12, CR, 12, 12, 12, 12>>
    /\ Len(issues) = 6
    /\ issues[1].nums = <<6, 6>>
    /\ issues[6].category = "Invalid Character Detail"
    /\ issues[6].nums[2] = 5

\* two codes in one aggregate, the second occurrence outside the context
\* of the first
C21_WitnessTwoCodes ==
    /\ pc = "scanned"
    /\ ~arg.verbose
    /\ Len(issues) = 1
    /\ issues[1].names = <<"word/document.xml", "0xb", "0xc">>
    /\ issues[1].nums = <<2, 1, 1>>
    /\ Len(issues[1].context) = 20

(* C22: the tracked-changes check adds a Nested Revisions WARNING exactly  *)
(* when some w:del element of the tree lies inside some w:ins element, at  *)
(* any depth; it adds at most one, however many insertions hold a          *)
(* deletion, and adds it right after the Tracked Changes issue.            *)
C22_NestedRevisionsOnce ==
    pc = "tracked_changes" =>
        LET root == arg.root
            some_nested ==
                \E i \in DOMAIN root :
                    LET t == elements_of(root[i])
                    IN  \E d, a \in DOMAIN t :
                            t[d].tag = "del" /\ t[a].tag = "ins" /\ is_inside(t, d, a)
            nr == {i \in DOMAIN issues : issues[i].category = "Nested Revisions"}
        IN  /\ some_nested <=> nr # {}
            /\ Cardinality(nr) <= 1
            /\ \A i \in nr :
                  /\ issues[i].severity = WARNING
                  /\ i > 1
                  /\ issues[i - 1].category = "Tracked Changes"

C22_Witness ==
    /\ pc = "tracked_changes"
    /\ arg.root = <<"delins", "insinsdel", "insrdel">>
    /\ Len(issues) = 2
    /\ issues[1].category = "Tracked Changes"
    /\ issues[1].nums = <<7, 4, 3, 0, 0>>
    /\ issues[2].category = "Nested Revisions"

(* C23: the content-controls check adds exactly one Content Controls issue *)
(* when the tree holds at least one w:sdt and none otherwise; the issue is *)
(* a WARNING when the lock value of at least one w:sdt is sdtLocked,       *)
(* contentLocked or sdtContentLocked, and an INFO when that of none is.    *)
C23_OneContentControlsIssue ==
    pc = "content_controls" =>
        LET root == arg.root
            sdts == {i \in DOMAIN root : \E k \in DOMAIN SdtKinds : root[i] = SdtKinds[k]}
            locked == {i \in sdts :
                          root[i] \in {"sdtLocked", "sdtContentOnly", "sdtContentLocked"}}
            cc == {i \in DOMAIN issues : issues[i].category = "Content Controls"}
        IN  /\ Cardinality(cc) = IF sdts # {} THEN 1 ELSE 0
            /\ \A i \in cc :
                  /\ issues[i].severity = WARNING <=> locked # {}
                  /\ issues[i].severity = INFO <=> locked = {}
                  /\ issues[i].nums =
                        <<IF locked # {} THEN Cardinality(locked) ELSE Cardinality(sdts)>>

C23_Witness ==
    /\ pc = "content_controls"
    /\ arg.root = <<"sdtUnlocked", "sdtContentOnly">>
    /\ Len(issues) = 1
    /\ issues[1].category = "Content Controls"
    /\ issues[1].severity = WARNING
    /\ issues[1].nums = <<1>>

\* the markers in the fixed order, in lower case, each with its label
C24_Markers ==
    <<[marker |-> <<"t", "o", "c">>, label |-> "Table of Contents"],
      [marker |-> <<"r", "e", "f">>, label |-> "Cross-reference"],
      [marker |-> <<"h", "y", "p", "e", "r", "l", "i", "n", "k">>,
       label |-> "Hyperlink"],
      [marker |-> <<"m", "e", "r", "g", "e", "f", "i", "e", "l", "d">>,
       label |-> "Mail Merge"],
      [marker |-> <<"p", "a", "g", "e">>, label |-> "Page Number"],
      [marker |-> <<"d", "a", "t", "e">>, label |-> "Date/Time"],
      [marker |-> <<"t", "i", "m", "e">>, label |-> "Date/Time"]>>

\* the character in lower case
C24_Lower(c) ==
    IF \E k \in DOMAIN UpperCase : UpperCase[k] = c
    THEN LowerCase[CHOOSE k \in DOMAIN UpperCase : UpperCase[k] = c]
    ELSE c

\* the marker occurs in the text, whatever the case of the text
C24_Occurs(marker, text) ==
    \E o \in 0..(Len(text) - Len(marker)) :
        \A j \in DOMAIN marker : C24_Lower(text[o + j]) = marker[j]

\* the label of the first marker in the fixed order that occurs, "" if none
C24_Label(text) ==
    LET hits == {k \in DOMAIN C24_Markers : C24_Occurs(C24_Markers[k].marker, text)}
    IN  IF hits = {} THEN ""
        ELSE C24_Markers[CHOOSE k \in hits : \A h \in hits : k <= h].label

(* C24: the field-codes check adds one Field Codes INFO exactly when the   *)
(* tree holds a w:fldChar or a w:instrText, and nothing else.  Each        *)
(* instruction text has at most one label, that of the first of the        *)
(* markers TOC, REF, HYPERLINK, MERGEFIELD, PAGE, DATE/TIME that occurs in *)
(* it in any case; the issue lists each label some text has exactly once,  *)
(* and reads Unknown exactly when no text has a label.                     *)
C24_FieldTypesByFirstMarker ==
    pc = "field_codes" =>
        LET root == arg.root
            fld == {i \in DOMAIN root : root[i] = "fldChar"}
            instr == {i \in DOMAIN root :
                         \/ root[i] \in {"instrText", "instrTOC", "instrPAGE"}
                         \/ \E k \in DOMAIN InstrNames : root[i] = InstrNames[k]}
            labels == {C24_Label(instr_text(root[i])) : i \in instr} \ {""}
        IN  IF fld = {} /\ instr = {} THEN issues = <<>>
            ELSE /\ Len(issues) = 1
                 /\ issues[1].category = "Field Codes"
                 /\ issues[1].severity = INFO
                 /\ LET names == issues[1].names
                    IN  IF labels = {} THEN names = <<"Unknown">>
                        ELSE /\ {names[k] : k \in DOMAIN names} = labels
                             /\ Len(names) = Cardinality(labels)

C24_Witness ==
    /\ pc = "field_codes"
    /\ arg.root = <<"instr1">>
    /\ arg.texts = <<<<"P", "a", "g", "e", "R", "E", "F">>>>
    /\ Len(issues) = 1
    /\ issues[1].names = <<"Cross-reference">>

\* the characters a URL scheme is made of
C25_Letters == {LowerCase[k] : k \in DOMAIN LowerCase} \cup {UpperCase[k] : k \in DOMAIN UpperCase}

\* the target starts with a URL scheme: a letter, then letters, "+", "-"
\* or ".", then a colon
C25_HasScheme(target) ==
    \E k \in DOMAIN target :
        /\ k > 1
        /\ target[k] = ":"
        /\ target[1] \in C25_Letters
        /\ \A j \in 2..(k - 1) : target[j] \in C25_Letters \cup {"+", "-", "."}

\* the number the issue of that category gives, 0 when there is none
C25_Counted(category) ==
    IF HasIssue(category)
    THEN issues[CHOOSE i \in DOMAIN issues : issues[i].category = category].nums[1]
    ELSE 0

(* C25: the relationship check counts an entry as external exactly when    *)
(* its TargetMode is External or its Target starts with a URL scheme       *)
(* (http:, https:, mailto:, ftp:, file:, in any case), and no such entry   *)
(* as a broken internal reference; an entry whose Target is the name of a  *)
(* part that begins with the letters http is not counted as external.      *)
C25_ExternalIffModeOrScheme ==
    pc = "rels_checked" =>
        LET rels == arg.part.rels
            external == {i \in DOMAIN rels :
                            rels[i].TargetMode = "External" \/ C25_HasScheme(rels[i].Target)}
        IN  /\ C25_Counted("External References") = Cardinality(external)
            /\ C25_Counted("Broken References") <= Len(rels) - Cardinality(external)

\* the target without one leading "./"
C26_Fallback(target) ==
    IF startswith(target, <<".", "/">>) THEN SubSeq(target, 3, Len(target)) ELSE target

(* C26: an internal entry (no TargetMode, no URL scheme) is counted as a   *)
(* broken reference exactly when neither its normalized path nor its       *)
(* Target without one leading "./" is the name of a part: a Target that    *)
(* begins with "../", with "/" or with a dot of the name is looked up as   *)
(* it is.  The Broken References issue names the last segment of the Type  *)
(* of the entry, unknown when the Type is empty.                           *)
C26_FallbackStripsOneDotSlash ==
    LET rels == arg.part.rels
        internal == \A i \in DOMAIN rels :
                        /\ rels[i].TargetMode = ""
                        /\ ~C25_HasScheme(rels[i].Target)
                        /\ ~startswith(rels[i].Target, <<"h", "t", "t", "p">>)
        broken == {i \in DOMAIN rels :
                      /\ ~in_namelist(target_path(rels[i].Target), namelist)
                      /\ ~in_namelist(C26_Fallback(rels[i].Target), namelist)}
    IN  (pc = "rels_checked" /\ internal) =>
            /\ C25_Counted("Broken References") = Cardinality(broken)
            /\ \A i \in DOMAIN issues :
                  issues[i].category = "Broken References" =>
                      {issues[i].names[k] : k \in DOMAIN issues[i].names} =
                          {IF rels[b].Type = <<>> THEN "unknown"
                           ELSE rels[b].Type[Len(rels[b].Type)] : b \in broken}

(* C27: on a relationships part that parses, the relationship check adds  *)
(* a Broken References WARNING exactly when it recorded a broken           *)
(* reference, naming each type among them once, then an External           *)
(* References INFO exactly when some entry is external, giving their       *)
(* number, and nothing else; when the part is absent it adds one           *)
(* Relationships WARNING, nothing else, and sets no statistic.             *)
C27_OneIssuePerList ==
    pc = "rels_checked" =>
        IF rels_path \notin namelist
        THEN /\ Len(issues) = 1
             /\ issues[1].category = "Relationships"
             /\ issues[1].severity = WARNING
             /\ stats = <<>>
        ELSE arg.part.outcome = "parsed" =>
             LET rels == arg.part.rels
                 external == {i \in DOMAIN rels :
                                 rels[i].TargetMode = "External" \/ rels[i].http}
                 broken == {i \in DOMAIN rels \ external : ~rels[i].found}
                 types == {IF rels[i].Type = <<>> THEN "unknown"
                           ELSE rels[i].Type[Len(rels[i].Type)] : i \in broken}
                 br == IF broken # {} THEN 1 ELSE 0
                 ex == IF external # {} THEN 1 ELSE 0
             IN  /\ Len(issues) = br + ex
                 /\ br = 1 =>
                       /\ issues[1].category = "Broken References"
                       /\ issues[1].severity = WARNING
                       /\ {issues[1].names[k] : k \in DOMAIN issues[1].names} = types
                       /\ Len(issues[1].names) = Cardinality(types)
                 /\ ex = 1 =>
                       /\ issues[br + 1].category = "External References"
                       /\ issues[br + 1].severity = INFO
                       /\ issues[br + 1].nums = <<Cardinality(external)>>

C27_Witness ==
    /\ pc = "rels_checked"
    /\ Len(issues) = 2
    /\ issues[1].category = "Broken References"
    /\ issues[1].names = <<"image">>
    /\ issues[2].category = "External References"
    /\ issues[2].nums = <<1>>

\* the part is absent
C27_WitnessAbsent ==
    /\ pc = "rels_checked"
    /\ rels_path \notin namelist
    /\ Len(issues) = 1

\* the names of EmbeddedNames that start with word/embeddings/, those of
\* them that end in .bin, and the names that start with word/media/
C28_InEmbeddings ==
    {"word/embeddings/oleObject1.bin", "word/embeddings/Workbook1.xlsx", "word/embeddings/"}

C28_EndInBin == {"word/embeddings/oleObject1.bin"}

C28_InMedia == {"word/media/image1.png", "word/media/"}

(* C28: the embedded-object scan adds one Embedded Objects WARNING exactly *)
(* when some name of the archive starts with word/embeddings/; the OLE     *)
(* count of the issue is the number of those names that end in .bin, and   *)
(* OLE count plus Other count is stats.embedded_objects.  It adds one      *)
(* Media Files INFO exactly when some name starts with word/media/, with   *)
(* the count stats.media_files, after the Embedded Objects issue.          *)
C28_EmbeddedAndMediaCounts ==
    (pc = "close" /\ arg.op = "check_embedded_objects") =>
        LET embeddings == namelist \cap C28_InEmbeddings
            media == namelist \cap C28_InMedia
            eo == IF embeddings # {} THEN 1 ELSE 0
            mf == IF media # {} THEN 1 ELSE 0
        IN  /\ Len(issues) = eo + mf
            /\ stats["embedded_objects"] = Cardinality(embeddings)
            /\ stats["media_files"] = Cardinality(media)
            /\ eo = 1 =>
                  /\ issues[1].category = "Embedded Objects"
                  /\ issues[1].severity = WARNING
                  /\ issues[1].nums[2] = Cardinality(embeddings \cap C28_EndInBin)
                  /\ issues[1].nums[2] + issues[1].nums[3] = stats["embedded_objects"]
            /\ mf = 1 =>
                  /\ issues[eo + 1].category = "Media Files"
                  /\ issues[eo + 1].severity = INFO
                  /\ issues[eo + 1].nums = <<stats["media_files"]>>

C28_Witness ==
    /\ pc = "close"
    /\ arg.op = "check_embedded_objects"
    /\ namelist = EmbeddedNames
    /\ Len(issues) = 2
    /\ issues[1].nums = <<3, 1, 2>>
    /\ issues[2].nums = <<2>>

(* C29: with --json, once the loop over the file arguments is over, main  *)
(* does not end by an exception: it prints the JSON document and calls     *)
(* sys.exit with 0 or 1, also when every argument was a pattern that       *)
(* matched no file.                                                        *)
C29_JsonRunEndsWithDocument ==
    (arg.op = "main" /\ arg.json /\ arg.files # <<>> /\ file_index > Len(arg.files)) =>
        /\ pc # "raised"
        /\ pc = "exited" =>
              /\ exit_code \in {0, 1}
              /\ stdout # <<>>
              /\ stdout[Len(stdout)] = "JSON"

(* C30: the API diagnostic makes its request with the timeout of the      *)
(* config file when the file gives one and --timeout was not given, and    *)
(* with the value of --timeout when it was given.                          *)
C30_ConfigTimeoutUnlessGiven ==
    (arg.op = "api_main" /\ request # <<>>) =>
        /\ (~arg.timeout_given /\ arg.config = "ok" /\ arg.file.has_timeout) =>
              request.timeout = arg.file.timeout
        /\ arg.timeout_given => request.timeout = arg.timeout

====
